---------------------------- MODULE Spec2Model ----------------------------
(***************************************************************************)
(* Client side of the Firebird wire protocol: firebirdsql/wireprotocol.py. *)
(* The socket's incoming side is a finite sequence of bytes (what the      *)
(* server has written before the peer closes or the read times out); the   *)
(* outgoing side is the log of the socket calls of the last operation.     *)
(***************************************************************************)
EXTENDS Integers, Sequences, FiniteSets, TLC

VARIABLES
    self,               \* the session fields of the WireProtocol object
    stream,             \* sock: the bytes the server puts on the wire
    pos,                \* sock: number of bytes of stream consumed so far
    translator,         \* sock: the cipher translator pair, once installed
    wire,               \* socket calls made by the operation that ran last
    result,             \* how the operation that ran last ended
    pc,                 \* the session's state and the position inside a method
    locals,             \* locals of a method that outlive a socket call
    xsqlda,             \* column descriptors handed to the row readers
    env                 \* the build, the process environment and the
                        \* wire_crypt option of the caller

vars == <<self, stream, pos, translator, wire, result, pc, locals, xsqlda,
          env>>

(***************************************************************************)
(* Bounds of the model.                                                    *)
(***************************************************************************)
MaxDummy == 2       \* op_dummy words in front of a frame
MaxSvItems == 2     \* items of a status vector before isc_arg_end
MaxRows == 2        \* rows of a fetch response

(***************************************************************************)
(* Opcodes and protocol constants.                                         *)
(***************************************************************************)
op_exit == 2
op_accept == 3
op_reject == 4
op_disconnect == 6
op_response == 9
op_event == 52
op_fetch_response == 66
op_dummy == 71
op_sql_response == 78
op_accept_data == 94
op_cond_accept == 98

isc_arg_end == 0
isc_arg_gds == 1
isc_arg_string == 2
isc_arg_cstring == 3
isc_arg_number == 4
isc_arg_interpreted == 5
isc_arg_sql_state == 19
isc_sqlerr == 335544436
FetchNoMore == 100

(***************************************************************************)
(* utils: integers as big-endian bytes.                                    *)
(***************************************************************************)
RECURSIVE bint_to_bytes(_, _)
bint_to_bytes(v, n) ==
    IF n = 0 THEN <<>>
    ELSE Append(bint_to_bytes(v \div 256, n - 1), v % 256)

RECURSIVE UnsignedBE(_)
UnsignedBE(b) ==
    IF Len(b) = 0 THEN 0
    ELSE 256 * UnsignedBE(SubSeq(b, 1, Len(b) - 1)) + b[Len(b)]

\* signed: the first byte carries the sign
bytes_to_bint(b) ==
    IF Len(b) > 0 /\ b[1] >= 128
    THEN UnsignedBE(<<b[1] - 256>> \o Tail(b)) ELSE UnsignedBE(b)

Zeros(n) == [i \in 1..n |-> 0]

(***************************************************************************)
(* recv_channel: nbytes bytes, plus the padding when word_alignment is     *)
(* set.  The loop stops when the peer closes or the timeout expires, which *)
(* is the end of s.  p is the number of bytes consumed before the call.    *)
(***************************************************************************)
recv_channel(s, p, nbytes, word_alignment) ==
    LET n == IF word_alignment /\ (nbytes % 4) # 0
             THEN nbytes + (4 - (nbytes % 4)) ELSE nbytes
        avail == Len(s) - p
        got == IF avail < n THEN avail ELSE n
    IN  IF got < nbytes
        THEN [ok |-> FALSE, data |-> <<>>, pos |-> p + got]
        ELSE [ok |-> TRUE, data |-> SubSeq(s, p + 1, p + nbytes),
              pos |-> p + got]

(***************************************************************************)
(* How an operation ends: exc = "none" and the returned value, or the name *)
(* of the exception raised and its arguments; pos is the number of bytes   *)
(* of the stream consumed when it ends.                                    *)
(***************************************************************************)
Return(v, p) == [exc |-> "none", val |-> v, pos |-> p]
Raise(e, args, p) == [exc |-> e, val |-> args, pos |-> p]

\* A message is a sequence of pieces: template text, a placeholder @k, the
\* str() of a number, the str() of a byte string.
Lit(id) == [kind |-> "lit", v |-> <<id>>]
Ph(k) == [kind |-> "ph", v |-> <<k>>]
StrNum(num) == [kind |-> "num", v |-> <<num>>]
StrBytes(b) ==
    [kind |-> "str",
     v |-> IF env.PYTHON_MAJOR_VER = 3 THEN <<98, 39>> \o b \o <<39>> ELSE b]

ErrArgs(message, gds_codes, sql_code) ==
    [message |-> message, gds_codes |-> gds_codes, sql_code |-> sql_code]
NoArgs == ErrArgs(<<>>, {}, 0)
CanNotRecv == ErrArgs(<<[kind |-> "lit", v |-> <<0>>]>>, {}, 0)
RecvFailed(p) == Raise("OperationalError", CanNotRecv, p)

\* fberrmsgs.messages.get(gds_code, '@1')
messages(gds_code) ==
    CASE gds_code = isc_sqlerr -> <<Lit(gds_code), Ph(1)>>
      [] gds_code = 335544344 -> <<Lit(gds_code), Ph(1), Lit(gds_code), Ph(2)>>
      [] OTHER -> <<Ph(1)>>

\* message.replace('@' + str(num_arg), piece)
Replace(message, num_arg, piece) ==
    [i \in 1..Len(message) |->
        IF message[i] = Ph(num_arg) THEN piece ELSE message[i]]

\* Python truth value of a message: the empty string is false
Truthy(message) ==
    \E i \in 1..Len(message) :
        message[i].kind # "str" \/ message[i].v # <<>>

(***************************************************************************)
(* _parse_status_vector.  gds_code and num_arg are locals that are only    *)
(* assigned inside the isc_arg_gds arm; reading one before it is assigned  *)
(* raises UnboundLocalError.                                               *)
(***************************************************************************)
\* SvStart with gds_code and num_arg assigned 0 before the loop
SvStartAssigned(n, p) ==
    [exc |-> "none", n |-> n, pos |-> p, gds_codes |-> {}, sql_code |-> 0,
     message |-> <<>>, gds_code |-> 0, gds_bound |-> TRUE,
     num_arg |-> 0, num_bound |-> TRUE]

SvStart(n, p) ==
    [exc |-> "none", n |-> n, pos |-> p, gds_codes |-> {}, sql_code |-> 0,
     message |-> <<>>, gds_code |-> 0, gds_bound |-> FALSE,
     num_arg |-> 0, num_bound |-> FALSE]

SvArmGds(s, st) ==
    LET r == recv_channel(s, st.pos, 4, FALSE)
        gds_code == bytes_to_bint(r.data)
    IN  IF ~r.ok THEN [st EXCEPT !.exc = "OperationalError", !.pos = r.pos]
        ELSE IF gds_code # 0
        THEN [st EXCEPT !.pos = r.pos, !.gds_code = gds_code,
                        !.gds_bound = TRUE,
                        !.gds_codes = @ \cup {gds_code},
                        !.message = @ \o messages(gds_code),
                        !.num_arg = 0, !.num_bound = TRUE]
        ELSE [st EXCEPT !.pos = r.pos, !.gds_code = gds_code,
                        !.gds_bound = TRUE]

SvArmNumber(s, st) ==
    LET r == recv_channel(s, st.pos, 4, FALSE)
        num == bytes_to_bint(r.data)
    IN  IF ~r.ok THEN [st EXCEPT !.exc = "OperationalError", !.pos = r.pos]
        ELSE IF ~st.gds_bound \/ ~st.num_bound
        THEN [st EXCEPT !.exc = "UnboundLocalError", !.pos = r.pos]
        ELSE [st EXCEPT !.pos = r.pos,
                        !.sql_code = IF st.gds_code = isc_sqlerr
                                     THEN num ELSE @,
                        !.num_arg = @ + 1,
                        !.message = Replace(@, st.num_arg + 1, StrNum(num))]

SvArmString(s, st) ==
    LET r == recv_channel(s, st.pos, 4, FALSE)
        nbytes == bytes_to_bint(r.data)
        r2 == recv_channel(s, r.pos, nbytes, TRUE)
    IN  IF ~r.ok THEN [st EXCEPT !.exc = "OperationalError", !.pos = r.pos]
        ELSE IF ~r2.ok
        THEN [st EXCEPT !.exc = "OperationalError", !.pos = r2.pos]
        ELSE IF ~st.num_bound
        THEN [st EXCEPT !.exc = "UnboundLocalError", !.pos = r2.pos]
        ELSE [st EXCEPT !.pos = r2.pos,
                        !.num_arg = @ + 1,
                        !.message =
                            Replace(@, st.num_arg + 1, StrBytes(r2.data))]

SvArm(s, st) ==
    CASE st.n = isc_arg_gds -> SvArmGds(s, st)
      [] st.n = isc_arg_number -> SvArmNumber(s, st)
      [] st.n \in {isc_arg_string, isc_arg_interpreted, isc_arg_sql_state}
            -> SvArmString(s, st)
      [] OTHER -> st

RECURSIVE SvLoop(_, _)
SvLoop(s, st) ==
    LET Next4(a, r) ==
            IF ~r.ok THEN [a EXCEPT !.exc = "OperationalError", !.pos = r.pos]
            ELSE SvLoop(s, [a EXCEPT !.n = bytes_to_bint(r.data),
                                     !.pos = r.pos])
        AfterArm(a) ==
            IF a.exc # "none" THEN a
            ELSE Next4(a, recv_channel(s, a.pos, 4, FALSE))
    IN  IF st.n = isc_arg_end THEN st ELSE AfterArm(SvArm(s, st))

\* the result: exc, pos and the triple (gds_codes, sql_code, message)
_parse_status_vector(s, p) ==
    LET r == recv_channel(s, p, 4, FALSE)
    IN  IF ~r.ok
        THEN [SvStart(0, r.pos) EXCEPT !.exc = "OperationalError"]
        ELSE SvLoop(s, SvStart(bytes_to_bint(r.data), r.pos))

\* an exception leaving _parse_status_vector, as the caller sees it
SvRaised(sv) ==
    IF sv.exc = "OperationalError" THEN RecvFailed(sv.pos)
    ELSE Raise(sv.exc, NoArgs, sv.pos)

(***************************************************************************)
(* _parse_op_response                                                      *)
(***************************************************************************)
_parse_op_response(s, p) ==
    LET Finish(b, buf, sv) ==
            IF sv.exc # "none" THEN SvRaised(sv)
            ELSE IF sv.sql_code # 0 \/ Truthy(sv.message)
            THEN Raise("OperationalError",
                       ErrArgs(sv.message, sv.gds_codes, sv.sql_code), sv.pos)
            ELSE Return([h |-> bytes_to_bint(SubSeq(b.data, 1, 4)),
                         oid |-> SubSeq(b.data, 5, 12),
                         buf |-> buf.data], sv.pos)
        WithBuf(b, buf) ==
            IF ~buf.ok THEN RecvFailed(buf.pos)
            ELSE Finish(b, buf, _parse_status_vector(s, buf.pos))
        WithHeader(b) ==
            IF ~b.ok THEN RecvFailed(b.pos)
            ELSE WithBuf(b, recv_channel(s, b.pos,
                                         bytes_to_bint(SubSeq(b.data, 13, 16)),
                                         TRUE))
    IN  WithHeader(recv_channel(s, p, 16, FALSE))

\* SkipDummy with "if" in the place of "while": one op_dummy at most is skipped
SkipDummyOnce(s, p) ==
    LET Second(b) ==
            IF b.ok /\ bytes_to_bint(b.data) = op_dummy
            THEN recv_channel(s, b.pos, 4, FALSE) ELSE b
    IN  Second(recv_channel(s, p, 4, FALSE))

\* b = recv_channel(4); while bytes_to_bint(b) == op_dummy: b = recv_channel(4)
RECURSIVE SkipDummy(_, _)
SkipDummy(s, p) ==
    LET b == recv_channel(s, p, 4, FALSE)
    IN  IF b.ok /\ bytes_to_bint(b.data) = op_dummy
        THEN SkipDummy(s, b.pos) ELSE b

(***************************************************************************)
(* _op_response                                                            *)
(***************************************************************************)
_op_response(s, p) ==
    LET Dispatch(b) ==
            IF ~b.ok THEN RecvFailed(b.pos)
            ELSE IF bytes_to_bint(b.data) # op_response
            THEN Raise("InternalError", NoArgs, b.pos)
            ELSE _parse_op_response(s, b.pos)
    IN  Dispatch(SkipDummy(s, p))

(***************************************************************************)
(* Rows.  A column descriptor x has io_length; x.value(raw_value) is the   *)
(* decoded column, which depends on the descriptor and on the bytes.       *)
(***************************************************************************)
XValue(x, raw_value) == [null |-> FALSE, v |-> <<x.io_length>> \o raw_value]
None == [null |-> TRUE, v |-> <<>>]

\* ReadColumn reading the value without its padding
ReadColumnUnaligned(s, p, x) ==
    LET Indicator(raw_value, ind) ==
            IF ~ind.ok THEN [ok |-> FALSE, col |-> None, pos |-> ind.pos]
            ELSE [ok |-> TRUE,
                  col |-> IF ind.data = Zeros(4)
                          THEN XValue(x, raw_value.data) ELSE None,
                  pos |-> ind.pos]
        Value(raw_value) ==
            IF ~raw_value.ok
            THEN [ok |-> FALSE, col |-> None, pos |-> raw_value.pos]
            ELSE Indicator(raw_value,
                           recv_channel(s, raw_value.pos, 4, FALSE))
        Variable(b) ==
            IF ~b.ok THEN [ok |-> FALSE, col |-> None, pos |-> b.pos]
            ELSE Value(recv_channel(s, b.pos, bytes_to_bint(b.data), FALSE))
    IN  IF x.io_length < 0 THEN Variable(recv_channel(s, p, 4, FALSE))
        ELSE Value(recv_channel(s, p, x.io_length, FALSE))

\* one column: the body of "for i in range(len(xsqlda))"
ReadColumn(s, p, x) ==
    LET Indicator(raw_value, ind) ==
            IF ~ind.ok THEN [ok |-> FALSE, col |-> None, pos |-> ind.pos]
            ELSE [ok |-> TRUE,
                  col |-> IF ind.data = Zeros(4)
                          THEN XValue(x, raw_value.data) ELSE None,
                  pos |-> ind.pos]
        Value(raw_value) ==
            IF ~raw_value.ok
            THEN [ok |-> FALSE, col |-> None, pos |-> raw_value.pos]
            ELSE Indicator(raw_value,
                           recv_channel(s, raw_value.pos, 4, FALSE))
        Variable(b) ==
            IF ~b.ok THEN [ok |-> FALSE, col |-> None, pos |-> b.pos]
            ELSE Value(recv_channel(s, b.pos, bytes_to_bint(b.data), TRUE))
    IN  IF x.io_length < 0 THEN Variable(recv_channel(s, p, 4, FALSE))
        ELSE Value(recv_channel(s, p, x.io_length, TRUE))

\* all columns of one row, in descriptor order
RECURSIVE ReadRow(_, _, _, _, _)
ReadRow(s, p, xs, i, r) ==
    LET Column(c) ==
            IF ~c.ok THEN [ok |-> FALSE, row |-> r, pos |-> c.pos]
            ELSE ReadRow(s, c.pos, xs, i + 1, Append(r, c.col))
    IN  IF i > Len(xs) THEN [ok |-> TRUE, row |-> r, pos |-> p]
        ELSE Column(ReadColumn(s, p, xs[i]))

(***************************************************************************)
(* _op_fetch_response                                                      *)
(***************************************************************************)
\* FetchLoop keeping the status of the header: the trailers' are not looked at
RECURSIVE FetchLoopHeaderStatus(_, _, _, _, _, _)
FetchLoopHeaderStatus(s, p, xs, status, count, rows) ==
    LET Trailer(r, b) ==
            IF ~b.ok THEN RecvFailed(b.pos)
            ELSE FetchLoopHeaderStatus(s, b.pos, xs, status,
                                       bytes_to_bint(SubSeq(b.data, 9, 12)),
                                       Append(rows, r.row))
        Row(r) ==
            IF ~r.ok THEN RecvFailed(r.pos)
            ELSE Trailer(r, recv_channel(s, r.pos, 12, FALSE))
    IN  IF count = 0
        THEN Return([rows |-> rows, more |-> (status # FetchNoMore)], p)
        ELSE Row(ReadRow(s, p, xs, 1, <<>>))

\* FetchLoop raising InternalError on a trailer that is not op_fetch_response
RECURSIVE FetchLoopChecksOp(_, _, _, _, _, _)
FetchLoopChecksOp(s, p, xs, status, count, rows) ==
    LET Trailer(r, b) ==
            IF ~b.ok THEN RecvFailed(b.pos)
            ELSE IF bytes_to_bint(SubSeq(b.data, 1, 4)) # op_fetch_response
            THEN Raise("InternalError", NoArgs, b.pos)
            ELSE FetchLoopChecksOp(s, b.pos, xs,
                                   bytes_to_bint(SubSeq(b.data, 5, 8)),
                                   bytes_to_bint(SubSeq(b.data, 9, 12)),
                                   Append(rows, r.row))
        Row(r) ==
            IF ~r.ok THEN RecvFailed(r.pos)
            ELSE Trailer(r, recv_channel(s, r.pos, 12, FALSE))
    IN  IF count = 0
        THEN Return([rows |-> rows, more |-> (status # FetchNoMore)], p)
        ELSE Row(ReadRow(s, p, xs, 1, <<>>))

RECURSIVE FetchLoop(_, _, _, _, _, _)
FetchLoop(s, p, xs, status, count, rows) ==
    LET Trailer(r, b) ==
            IF ~b.ok THEN RecvFailed(b.pos)
            ELSE FetchLoop(s, b.pos, xs,
                           bytes_to_bint(SubSeq(b.data, 5, 8)),
                           bytes_to_bint(SubSeq(b.data, 9, 12)),
                           Append(rows, r.row))
        Row(r) ==
            IF ~r.ok THEN RecvFailed(r.pos)
            ELSE Trailer(r, recv_channel(s, r.pos, 12, FALSE))
    IN  IF count = 0
        THEN Return([rows |-> rows, more |-> (status # FetchNoMore)], p)
        ELSE Row(ReadRow(s, p, xs, 1, <<>>))

_op_fetch_response(s, p, xs) ==
    LET Header(hd) ==
            IF ~hd.ok THEN RecvFailed(hd.pos)
            ELSE FetchLoop(s, hd.pos, xs,
                           bytes_to_bint(SubSeq(hd.data, 1, 4)),
                           bytes_to_bint(SubSeq(hd.data, 5, 8)), <<>>)
        Dispatch(b) ==
            IF ~b.ok THEN RecvFailed(b.pos)
            ELSE IF bytes_to_bint(b.data) = op_response
            THEN _parse_op_response(s, b.pos)
            ELSE IF bytes_to_bint(b.data) # op_fetch_response
            THEN Raise("InternalError", NoArgs, b.pos)
            ELSE Header(recv_channel(s, b.pos, 8, FALSE))
    IN  Dispatch(SkipDummy(s, p))

(***************************************************************************)
(* _op_sql_response                                                        *)
(***************************************************************************)
_op_sql_response(s, p, xs) ==
    LET Row(r) == IF ~r.ok THEN RecvFailed(r.pos) ELSE Return(r.row, r.pos)
        Count(c) ==
            IF ~c.ok THEN RecvFailed(c.pos)
            ELSE IF bytes_to_bint(c.data) = 0 THEN Return(<<>>, c.pos)
            ELSE Row(ReadRow(s, c.pos, xs, 1, <<>>))
        Dispatch(b) ==
            IF ~b.ok THEN RecvFailed(b.pos)
            ELSE IF bytes_to_bint(b.data) # op_sql_response
            THEN Raise("InternalError", NoArgs, b.pos)
            ELSE Count(recv_channel(s, b.pos, 4, FALSE))
    IN  Dispatch(SkipDummy(s, p))

(***************************************************************************)
(* _op_event and _parse_op_event                                           *)
(***************************************************************************)
EventRecvSize == 4096

_parse_op_event(s, p) ==
    LET Parse(b) ==
            IF ~b.ok THEN RecvFailed(b.pos)
            ELSE Return([db_handle |-> bytes_to_bint(SubSeq(b.data, 1, 4)),
                         event_id |-> bytes_to_bint(
                             SubSeq(b.data, EventRecvSize - 3, EventRecvSize)),
                         event_names |-> <<>>], b.pos)
    IN  Parse(recv_channel(s, p, EventRecvSize, FALSE))

_op_event(s, p) ==
    LET Dispatch(b, op) ==
            IF op = op_response THEN _parse_op_response(s, b.pos)
            ELSE IF op = op_exit \/ op = op_exit
            THEN Raise("DisconnectByPeer", NoArgs, b.pos)
            ELSE IF op # op_event THEN Raise("InternalError", NoArgs, b.pos)
            ELSE _parse_op_event(s, b.pos)
        Opcode(b) ==
            IF ~b.ok THEN RecvFailed(b.pos)
            ELSE Dispatch(b, bytes_to_bint(b.data))
    IN  Opcode(SkipDummy(s, p))

(***************************************************************************)
(* _wait_for_event                                                         *)
(***************************************************************************)
\* utils.bytes_to_int: little endian, signed
RECURSIVE UnsignedLE(_)
UnsignedLE(b) ==
    IF Len(b) = 0 THEN 0 ELSE b[1] + 256 * UnsignedLE(Tail(b))

bytes_to_int(b) ==
    IF Len(b) > 0 /\ b[Len(b)] >= 128
    THEN UnsignedLE(SubSeq(b, 1, Len(b) - 1) \o <<b[Len(b)] - 256>>)
    ELSE UnsignedLE(b)

\* b[i:j] of Python for 0 <= i <= j
Slice(b, i, j) ==
    SubSeq(b, i + 1, IF j > Len(b) THEN Len(b) ELSE j)

\* event_names[s] = n
DictSet(d, k, n) ==
    [x \in (DOMAIN d) \cup {k} |-> IF x = k THEN n ELSE d[x]]

\* the record loop as an if: the first record only
EventRecordsOnce(b, i, event_names) ==
    IF i >= Len(b) THEN [ok |-> TRUE, event_names |-> event_names]
    ELSE LET ln == b[i + 1]
             s == Slice(b, i + 1, i + 1 + ln)
             n == Slice(b, i + 1 + ln, i + 1 + ln + 4)
         IN  IF Len(n) \notin {1, 2, 4}
             THEN [ok |-> FALSE, event_names |-> event_names]
             ELSE [ok |-> TRUE,
                   event_names |-> DictSet(event_names, s, bytes_to_int(n))]

\* while i < len(b): one [name_len, name, counter] record per turn
RECURSIVE EventRecords(_, _, _)
EventRecords(b, i, event_names) ==
    IF i >= Len(b) THEN [ok |-> TRUE, event_names |-> event_names]
    ELSE LET ln == b[i + 1]
             s == Slice(b, i + 1, i + 1 + ln)
             n == Slice(b, i + 1 + ln, i + 1 + ln + 4)
         IN  IF Len(n) \notin {1, 2, 4}
             THEN [ok |-> FALSE, event_names |-> event_names]
             ELSE EventRecords(b, i + ln + 5,
                               DictSet(event_names, s, bytes_to_int(n)))

WaitEventFrame(s, p) ==
    LET EventId(recs, event_id) ==
            IF ~event_id.ok THEN RecvFailed(event_id.pos)
            ELSE Return([event_id |-> bytes_to_bint(event_id.data),
                         event_names |-> recs.event_names], event_id.pos)
        Ast(recs, ast) ==
            IF ~ast.ok THEN RecvFailed(ast.pos)
            ELSE EventId(recs, recv_channel(s, ast.pos, 4, FALSE))
        Records(b, recs) ==
            IF ~recs.ok THEN Raise("InternalError", NoArgs, b.pos)
            ELSE Ast(recs, recv_channel(s, b.pos, 8, FALSE))
        Payload(b) ==
            IF ~b.ok THEN RecvFailed(b.pos)
            ELSE IF Len(b.data) = 0 THEN Raise("IndexError", NoArgs, b.pos)
            ELSE IF b.data[1] # 1 THEN Raise("AssertionError", NoArgs, b.pos)
            ELSE Records(b, EventRecords(b.data, 1, <<>>))
        Length(ln) ==
            IF ~ln.ok THEN RecvFailed(ln.pos)
            ELSE Payload(recv_channel(s, ln.pos, bytes_to_bint(ln.data), TRUE))
        DbHandle(db_handle) ==
            IF ~db_handle.ok THEN RecvFailed(db_handle.pos)
            ELSE Length(recv_channel(s, db_handle.pos, 4, FALSE))
    IN  DbHandle(recv_channel(s, p, 4, FALSE))

RECURSIVE _wait_for_event(_, _)
_wait_for_event(s, p) ==
    LET Dispatch(b4, op) ==
            IF op = op_dummy THEN _wait_for_event(s, b4.pos)
            ELSE IF op = op_exit \/ op = op_disconnect
            THEN Return([event_id |-> 0, event_names |-> <<>>], b4.pos)
            ELSE IF op = op_event THEN WaitEventFrame(s, b4.pos)
            ELSE Raise("InternalError", NoArgs, b4.pos)
        Opcode(b4) ==
            IF ~b4.ok THEN RecvFailed(b4.pos)
            ELSE Dispatch(b4, bytes_to_bint(b4.data))
    IN  Opcode(recv_channel(s, p, 4, FALSE))

(***************************************************************************)
(* xdrlib.Packer                                                           *)
(***************************************************************************)
pack_int(v) == bint_to_bytes(v, 4)
pack_bytes(b) ==
    pack_int(Len(b)) \o b \o Zeros(((Len(b) + 3) \div 4) * 4 - Len(b))
pack_string(b) == pack_bytes(b)

\* utils.int_to_bytes: little endian
RECURSIVE int_to_bytes(_, _)
int_to_bytes(v, n) ==
    IF n = 0 THEN <<>>
    ELSE <<v % 256>> \o int_to_bytes(v \div 256, n - 1)

(***************************************************************************)
(* The socket.  An optional value is <<>> when absent and <<v>> when set.  *)
(* The reader translator is a stream cipher: byte number i read after its  *)
(* installation is combined with byte i of the key stream.                 *)
(***************************************************************************)
Absent == <<>>
Some(v) == <<v>>

RECURSIVE Xor(_, _)
Xor(a, b) ==
    IF a = 0 /\ b = 0 THEN 0
    ELSE (((a % 2) + (b % 2)) % 2) + 2 * Xor(a \div 2, b \div 2)

Arc4KeyStream(key, i) == (key + 5 * i) % 256

\* what sock.recv hands to recv_channel: the wire bytes through the reader
Translated(s, tr) ==
    IF tr.key = Absent THEN s
    ELSE [i \in 1..Len(s) |->
            IF i <= tr.at THEN s[i]
            ELSE Xor(s[i], Arc4KeyStream(tr.key[1], i - tr.at))]

NoTranslator == [key |-> Absent, at |-> 0, installs |-> 0]

\* sock.set_translator
set_translator(tr, key, p) ==
    [key |-> Some(key), at |-> p, installs |-> tr.installs + 1]

\* socket calls, as logged in wire
SendEv(data) ==
    [ev |-> "send", data |-> data, cipher |-> translator.key, ok |-> TRUE]
RecvEv(r) ==
    [ev |-> "recv", data |-> <<>>, cipher |-> translator.key,
     ok |-> (r.exc = "none")]
SetEv(key) ==
    [ev |-> "set_translator", data |-> <<>>, cipher |-> Some(key),
     ok |-> TRUE]

Result(op, r) == [op |-> op, exc |-> r.exc, val |-> r.val]

\* every error propagates to the caller, which gives the session up
After(r) == IF r.exc = "none" THEN "idle" ELSE "closed"
NoResult == [op |-> "none", exc |-> "none", val |-> NoArgs]

(***************************************************************************)
(* Issuer methods that carry db_handle.                                    *)
(***************************************************************************)
op_detach == 21
op_transaction == 29
op_info_database == 40
op_que_events == 48
op_cancel_events == 49
op_connect_request == 53
op_allocate_statement == 62
op_exec_immediate == 64
op_drop_database == 81
op_service_detach == 83
op_service_info == 84
op_service_start == 85
buffer_length == 1024

InvalidDbHandle(op) ==
    Raise("OperationalError", ErrArgs(<<Lit(op)>>, {}, 0), pos)

\* Issue without the test of db_handle: the packet is sent whatever the handle
IssueUnchecked(name, op, packet) ==
    /\ pc = "idle"
    /\ result' = Result(name, Return(NoArgs, pos))
    /\ wire' = <<SendEv(packet)>>
    /\ pc' = pc
    /\ UNCHANGED <<self, stream, pos, translator, locals, xsqlda, env>>

\* if self.db_handle is None: raise ...; build packet; self.sock.send(packet)
Issue(name, op, packet) ==
    /\ pc = "idle"
    /\ IF self.db_handle = Absent
       THEN /\ result' = Result(name, InvalidDbHandle(op))
            /\ wire' = <<>>
            /\ pc' = "closed"
       ELSE /\ result' = Result(name, Return(NoArgs, pos))
            /\ wire' = <<SendEv(packet)>>
            /\ pc' = pc
    /\ UNCHANGED <<self, stream, pos, translator, locals, xsqlda, env>>

Handle == IF self.db_handle = Absent THEN 0 ELSE self.db_handle[1]
SampleBytes == {<<>>, <<1, 2, 3, 4, 5>>}
SampleInts == {0, 1}

_op_drop_database ==
    Issue("_op_drop_database", op_drop_database,
          pack_int(op_drop_database) \o pack_int(Handle))

_op_service_info ==
    \E param \in SampleBytes, item \in SampleBytes :
        Issue("_op_service_info", op_service_info,
              pack_int(op_service_info) \o pack_int(Handle) \o pack_int(0)
              \o pack_bytes(param) \o pack_bytes(item) \o pack_int(512))

_op_service_start ==
    \E param \in SampleBytes :
        Issue("_op_service_start", op_service_start,
              pack_int(op_service_start) \o pack_int(Handle) \o pack_int(0)
              \o pack_bytes(param))

_op_service_detach ==
    Issue("_op_service_detach", op_service_detach,
          pack_int(op_service_detach) \o pack_int(Handle))

_op_info_database ==
    \E b \in SampleBytes :
        Issue("_op_info_database", op_info_database,
              pack_int(op_info_database) \o pack_int(Handle) \o pack_int(0)
              \o pack_bytes(b) \o pack_int(buffer_length))

_op_transaction ==
    \E tpb \in SampleBytes :
        Issue("_op_transaction", op_transaction,
              pack_int(op_transaction) \o pack_int(Handle)
              \o pack_bytes(tpb))

_op_allocate_statement ==
    Issue("_op_allocate_statement", op_allocate_statement,
          pack_int(op_allocate_statement) \o pack_int(Handle))

_op_exec_immediate ==
    \E trans_handle \in SampleInts, query \in SampleBytes :
        Issue("_op_exec_immediate", op_exec_immediate,
              pack_int(op_exec_immediate) \o pack_int(trans_handle)
              \o pack_int(Handle) \o pack_int(3) \o pack_string(query)
              \o pack_bytes(<<>>) \o pack_int(buffer_length))

_op_detach ==
    Issue("_op_detach", op_detach,
          pack_int(op_detach) \o pack_int(Handle))

\* event_names with one entry: name -> n
_op_que_events ==
    \E name \in SampleBytes, n \in SampleInts, event_id \in {1} :
        Issue("_op_que_events", op_que_events,
              pack_int(op_que_events) \o pack_int(Handle)
              \o pack_bytes(<<1>> \o <<Len(name)>> \o name
                            \o int_to_bytes(n, 4))
              \o pack_int(0) \o pack_int(0) \o pack_int(event_id))

_op_cancel_events ==
    \E event_id \in SampleInts :
        Issue("_op_cancel_events", op_cancel_events,
              pack_int(op_cancel_events) \o pack_int(Handle)
              \o pack_int(event_id))

(***************************************************************************)
(* _op_connect_request: the request, then its reply.                       *)
(***************************************************************************)
ConnectRequestReply(s, p) ==
    LET Finish(h, port, family, ip, sv) ==
            IF sv.exc # "none" THEN SvRaised(sv)
            ELSE IF sv.sql_code # 0 \/ Truthy(sv.message)
            THEN Raise("OperationalError",
                       ErrArgs(sv.message, sv.gds_codes, sv.sql_code), sv.pos)
            ELSE Return([h |-> bytes_to_bint(h.data),
                         port |-> UnsignedBE(port.data),
                         family |-> bytes_to_bint(family.data),
                         ip_address |-> ip.data], sv.pos)
        Rest(h, port, family, ip, rest) ==
            IF ~rest.ok THEN RecvFailed(rest.pos)
            ELSE Finish(h, port, family, ip,
                        _parse_status_vector(s, rest.pos))
        Ip(h, ln, port, family, ip) ==
            IF ~ip.ok THEN RecvFailed(ip.pos)
            ELSE Rest(h, port, family, ip,
                      recv_channel(s, ip.pos, ln - 8, FALSE))
        Port(h, ln, family, port) ==
            IF ~port.ok THEN RecvFailed(port.pos)
            ELSE Ip(h, ln, port, family, recv_channel(s, port.pos, 4, FALSE))
        Family(h, ln, family) ==
            IF ~family.ok THEN RecvFailed(family.pos)
            ELSE Port(h, ln, family, recv_channel(s, family.pos, 2, FALSE))
        Padded(h, lnw, ln) ==
            Family(h, ln + (ln % 4), recv_channel(s, lnw.pos, 2, FALSE))
        Length(h, lnw) ==
            IF ~lnw.ok THEN RecvFailed(lnw.pos)
            ELSE Padded(h, lnw, bytes_to_bint(lnw.data))
        Garbage(h, garbage) ==
            IF ~garbage.ok THEN RecvFailed(garbage.pos)
            ELSE Length(h, recv_channel(s, garbage.pos, 4, FALSE))
        ObjectHandle(h) ==
            IF ~h.ok THEN RecvFailed(h.pos)
            ELSE Garbage(h, recv_channel(s, h.pos, 8, FALSE))
        Dispatch(b) ==
            IF ~b.ok THEN RecvFailed(b.pos)
            ELSE IF bytes_to_bint(b.data) # op_response
            THEN Raise("InternalError", NoArgs, b.pos)
            ELSE ObjectHandle(recv_channel(s, b.pos, 4, FALSE))
    IN  Dispatch(SkipDummy(s, p))

_op_connect_request ==
    LET Reply(r) ==
            /\ result' = Result("_op_connect_request", r)
            /\ wire' = <<SendEv(pack_int(op_connect_request)
                                \o pack_int(1) \o pack_int(Handle)
                                \o pack_int(0)),
                         RecvEv(r)>>
            /\ pos' = r.pos
            /\ pc' = After(r)
    IN  /\ pc = "idle"
        /\ IF self.db_handle = Absent
           THEN /\ result' = Result("_op_connect_request",
                                    InvalidDbHandle(op_connect_request))
                /\ wire' = <<>>
                /\ pos' = pos
                /\ pc' = "closed"
           ELSE Reply(ConnectRequestReply(Translated(stream, translator),
                                          pos))
        /\ UNCHANGED <<self, stream, translator, locals, xsqlda, env>>

(***************************************************************************)
(* Names on the wire, as byte strings.                                     *)
(***************************************************************************)
Srp == <<83, 114, 112>>
Legacy_Auth == <<76, 101, 103, 97, 99, 121, 95, 65, 117, 116, 104>>
Arc4 == <<65, 114, 99, 52>>
Symmetric == <<83, 121, 109, 109, 101, 116, 114, 105, 99>>
Comma == <<44>>

\* utils.bytes_to_hex and utils.hex_to_bytes (lower-case hexadecimal)
HexDigit(n) == IF n < 10 THEN 48 + n ELSE 87 + n
HexValue(c) == IF c >= 97 THEN c - 87 ELSE c - 48

RECURSIVE bytes_to_hex(_)
bytes_to_hex(b) ==
    IF Len(b) = 0 THEN <<>>
    ELSE <<HexDigit(b[1] \div 16), HexDigit(b[1] % 16)>>
         \o bytes_to_hex(Tail(b))

RECURSIVE hex_to_bytes(_)
hex_to_bytes(h) ==
    IF Len(h) < 2 THEN <<>>
    ELSE <<16 * HexValue(h[1]) + HexValue(h[2])>>
         \o hex_to_bytes(SubSeq(h, 3, Len(h)))

(***************************************************************************)
(* srp: the key pair of client_seed and the (proof, session key) pair of   *)
(* client_proof, a function of its arguments.                              *)
(***************************************************************************)
RECURSIVE SumBytes(_)
SumBytes(b) == IF Len(b) = 0 THEN 0 ELSE b[1] + SumBytes(Tail(b))

client_seed == [public |-> 16 + env.seed, private |-> env.seed]

client_proof(user, password, salt, A, B, a) ==
    [proof |-> <<(SumBytes(user) + SumBytes(salt) + A + B) % 256,
                 (SumBytes(password) + a) % 256>>,
     auth_key |-> (SumBytes(password) + SumBytes(salt) + 3 * A + B + a) % 256]

long2bytes(n) == IF n < 256 THEN <<n>> ELSE bint_to_bytes(n, 2)

\* get_crypt(password): None when the platform has no crypt()
get_crypt(password) ==
    IF env.have_crypt THEN Some(<<SumBytes(password) % 256>>) ELSE Absent

\* str.upper() on the byte values of ASCII text
Upper(b) ==
    [i \in 1..Len(b) |-> IF b[i] >= 97 /\ b[i] <= 122 THEN b[i] - 32 ELSE b[i]]

(***************************************************************************)
(* uid and _op_connect                                                     *)
(***************************************************************************)
CNCT_user == 1
CNCT_host == 4
CNCT_user_verification == 6
CNCT_specific_data == 7
CNCT_plugin_name == 8
CNCT_login == 9
CNCT_plugin_list == 10
CNCT_client_crypt == 11
CnctChunk == 254
op_connect == 1
op_attach == 19
PROTOCOL_VERSION10 == 10
PROTOCOL_VERSION13 == 13

RECURSIVE SplitSpecific(_, _, _)
SplitSpecific(k, v, i) ==
    IF Len(v) > CnctChunk
    THEN <<k, 255, i>> \o SubSeq(v, 1, CnctChunk)
         \o SplitSpecific(k, SubSeq(v, CnctChunk + 1, Len(v)), i + 1)
    ELSE <<k, Len(v) + 1, i>> \o v

pack_cnct_param(k, v) ==
    IF k # CNCT_specific_data THEN <<k, Len(v)>> \o v
    ELSE SplitSpecific(k, v, 0)

RECURSIVE Join(_)
Join(names) ==
    IF Len(names) = 0 THEN <<>>
    ELSE IF Len(names) = 1 THEN names[1]
    ELSE names[1] \o Comma \o Join(Tail(names))

\* the bytes of the uid block; the session fields uid assigns are in UidSelf
uid(auth_plugin_list, wire_crypt) ==
    LET specific_data ==
            IF auth_plugin_list[1] = Srp
            THEN Some(bytes_to_hex(long2bytes(client_seed.public)))
            ELSE get_crypt(self.password)
        client_crypt == int_to_bytes(IF wire_crypt THEN 1 ELSE 0, 4)
        auth == pack_cnct_param(CNCT_login, Upper(self.user))
                \o pack_cnct_param(CNCT_plugin_name, auth_plugin_list[1])
                \o pack_cnct_param(CNCT_plugin_list, Join(auth_plugin_list))
                \o (IF specific_data # Absent
                    THEN pack_cnct_param(CNCT_specific_data, specific_data[1])
                    ELSE <<>>)
                \o pack_cnct_param(CNCT_client_crypt, client_crypt)
    IN  (IF Len(auth_plugin_list) > 0 THEN auth ELSE <<>>)
        \o pack_cnct_param(CNCT_user, env.USER)
        \o pack_cnct_param(CNCT_host, env.hostname)
        \o pack_cnct_param(CNCT_user_verification, <<>>)

UidSelf(auth_plugin_list) ==
    IF Len(auth_plugin_list) = 0 THEN self
    ELSE [self EXCEPT
            !.client_public_key =
                IF auth_plugin_list[1] = Srp
                THEN Some(client_seed.public) ELSE @,
            !.client_private_key =
                IF auth_plugin_list[1] = Srp
                THEN Some(client_seed.private) ELSE @,
            !.plugin_name = auth_plugin_list[1],
            !.plugin_list = Join(auth_plugin_list)]

\* more_protocol with max type 5 and weight 2 in every descriptor
more_protocol_uniform ==
    <<255, 255, 128, 11>> \o pack_int(1) \o pack_int(0) \o pack_int(5)
        \o pack_int(2)
    \o <<255, 255, 128, 12>> \o pack_int(1) \o pack_int(0) \o pack_int(5)
        \o pack_int(2)
    \o <<255, 255, 128, 13>> \o pack_int(1) \o pack_int(0) \o pack_int(5)
        \o pack_int(2)

more_protocol ==
    <<255, 255, 128, 11>> \o pack_int(1) \o pack_int(0) \o pack_int(4)
        \o pack_int(4)
    \o <<255, 255, 128, 12>> \o pack_int(1) \o pack_int(0) \o pack_int(4)
        \o pack_int(6)
    \o <<255, 255, 128, 13>> \o pack_int(1) \o pack_int(0) \o pack_int(4)
        \o pack_int(8)

ConnectPacket(auth_plugin_list, wire_crypt) ==
    pack_int(op_connect) \o pack_int(op_attach) \o pack_int(3)
    \o pack_int(36) \o pack_string(self.filename) \o pack_int(4)
    \o pack_bytes(uid(auth_plugin_list, wire_crypt))
    \o pack_int(PROTOCOL_VERSION10) \o pack_int(1) \o pack_int(0)
    \o pack_int(5) \o pack_int(2) \o more_protocol

OtherPlugin == <<88>>
PluginLists ==
    {<<>>, <<Srp>>, <<Legacy_Auth>>, <<Srp, Legacy_Auth>>, <<OtherPlugin>>}

\* the caller connects once, on a new session
_op_connect ==
    /\ pc = "new"
    /\ \E auth_plugin_list \in PluginLists, wire_crypt \in {env.wire_crypt} :
        IF Len(auth_plugin_list) > 0
           /\ auth_plugin_list[1] \notin {Srp, Legacy_Auth}
        THEN /\ result' = Result("_op_connect",
                    Raise("OperationalError",
                          ErrArgs(<<Lit(op_connect)>>, {}, 0), pos))
             /\ UNCHANGED self
             /\ pc' = "closed"
             /\ wire' = <<>>
        ELSE /\ self' = UidSelf(auth_plugin_list)
             /\ wire' = <<SendEv(ConnectPacket(auth_plugin_list, wire_crypt))>>
             /\ result' = Result("_op_connect", Return(NoArgs, pos))
             /\ pc' = "connected"
    /\ UNCHANGED <<stream, pos, translator, locals, xsqlda, env>>

(***************************************************************************)
(* _op_accept.  AcceptRead is the method up to its first send: the accept  *)
(* packet is read and, for plugin Srp, the proof and the session key are   *)
(* computed.  The SRP continuation follows as one step per socket call.    *)
(***************************************************************************)
op_cont_auth == 92
op_crypt == 96

\* "if read_length % 4: self.recv_channel(4 - read_length % 4)"
AcceptPadding(s, f, read_length) ==
    LET Padded(pad) == [ok |-> pad.ok, data |-> f.data, pos |-> pad.pos]
    IN  IF ~f.ok \/ (read_length % 4) = 0 THEN f
        ELSE Padded(recv_channel(s, f.pos, 4 - (read_length % 4), FALSE))

\* ln = bytes_to_bint(recv_channel(4)); field = recv_channel(ln); padding
AcceptField(s, p) ==
    LET Field(lnw, ln) ==
            AcceptPadding(s, recv_channel(s, lnw.pos, ln, FALSE), 4 + ln)
        Length(lnw) ==
            IF ~lnw.ok THEN lnw ELSE Field(lnw, bytes_to_bint(lnw.data))
    IN  Length(recv_channel(s, p, 4, FALSE))

AcceptEnd(r, me) ==
    [r |-> r, me |-> me, cont |-> FALSE, client_proof |-> <<>>, auth_key |-> 0]

AcceptSrp(data, me, p) ==
    LET Proved(cp) ==
            [r |-> Return(NoArgs, p), me |-> me, cont |-> TRUE,
             client_proof |-> cp.proof, auth_key |-> cp.auth_key]
        Keys(ln) ==
            Proved(client_proof(
                Upper(me.user), me.password, Slice(data, 2, ln + 2),
                me.client_public_key[1],
                UnsignedBE(hex_to_bytes(Slice(data, 4 + ln, Len(data)))),
                me.client_private_key[1]))
    IN  IF me.client_public_key = Absent \/ me.client_private_key = Absent
        THEN AcceptEnd(Raise("AttributeError", NoArgs, p), me)
        ELSE Keys(bytes_to_int(Slice(data, 0, 2)))

AcceptConditional(s, p, me0) ==
    LET Decide(data, me, is_authenticated, keys) ==
            IF ~keys.ok THEN AcceptEnd(RecvFailed(keys.pos), me)
            ELSE IF me.plugin_name = Legacy_Auth
                    /\ bytes_to_bint(is_authenticated.data) = 0
            THEN AcceptEnd(Raise("OperationalError",
                                 ErrArgs(<<Lit(op_cond_accept)>>, {}, 0),
                                 keys.pos), me)
            ELSE IF me.plugin_name = Srp
            THEN AcceptSrp(data.data, me, keys.pos)
            ELSE AcceptEnd(Return(NoArgs, keys.pos), me)
        Authenticated(data, me, is_authenticated) ==
            IF ~is_authenticated.ok
            THEN AcceptEnd(RecvFailed(is_authenticated.pos), me)
            ELSE Decide(data, me, is_authenticated,
                        AcceptField(s, is_authenticated.pos))
        Named(data, plugin_name, me) ==
            IF ~plugin_name.ok THEN AcceptEnd(RecvFailed(plugin_name.pos), me)
            ELSE Authenticated(data, me,
                               recv_channel(s, plugin_name.pos, 4, FALSE))
        Plugin(data, plugin_name) ==
            Named(data, plugin_name,
                  IF plugin_name.ok \/ Len(plugin_name.data) > 0
                  THEN [me0 EXCEPT !.plugin_name = plugin_name.data]
                  ELSE me0)
        Data(data) ==
            IF ~data.ok THEN AcceptEnd(RecvFailed(data.pos), me0)
            ELSE Plugin(data, AcceptField(s, data.pos))
    IN  Data(AcceptField(s, p))

AcceptRead(s, p, me0) ==
    LET Decide(op_code, b12, me) ==
            IF op_code = op_cond_accept \/ op_code = op_accept_data
            THEN AcceptConditional(s, b12.pos, me)
            ELSE IF op_code # op_accept
            THEN AcceptEnd(Raise("AssertionError", NoArgs, b12.pos), me)
            ELSE AcceptEnd(Return(NoArgs, b12.pos), me)
        Version(op_code, b12) ==
            IF ~b12.ok THEN AcceptEnd(RecvFailed(b12.pos), me0)
            ELSE Decide(op_code, b12,
                        [me0 EXCEPT
                           !.accept_version = Some(b12.data[4]),
                           !.accept_architecture =
                               Some(bytes_to_bint(SubSeq(b12.data, 5, 8))),
                           !.accept_type =
                               Some(bytes_to_bint(SubSeq(b12.data, 9, 12)))])
        Dispatch(b, op_code) ==
            IF op_code = op_reject
            THEN AcceptEnd(Raise("OperationalError",
                                 ErrArgs(<<Lit(op_reject)>>, {}, 0), b.pos),
                           me0)
            ELSE IF op_code = op_response
            THEN AcceptEnd(_parse_op_response(s, b.pos), me0)
            ELSE Version(op_code, recv_channel(s, b.pos, 12, FALSE))
        Opcode(b) ==
            IF ~b.ok THEN AcceptEnd(RecvFailed(b.pos), me0)
            ELSE Dispatch(b, bytes_to_bint(b.data))
    IN  Opcode(SkipDummy(s, p))

Running == [op |-> "_op_accept", exc |-> "running", val |-> NoArgs]

_op_accept ==
    LET Accepted(a) ==
            /\ self' = a.me
            /\ pos' = a.r.pos
            /\ wire' = <<>>
            /\ IF a.cont
               THEN /\ pc' = "cont_auth"
                    /\ locals' = [client_proof |-> a.client_proof,
                                  auth_key |-> a.auth_key]
                    /\ result' = Running
               ELSE /\ pc' = After(a.r)
                    /\ result' = Result("_op_accept", a.r)
                    /\ UNCHANGED locals
    IN  /\ pc = "connected"
        /\ Accepted(AcceptRead(Translated(stream, translator), pos, self))
        /\ UNCHANGED <<stream, translator, xsqlda, env>>

ContAuthPacket ==
    pack_int(op_cont_auth) \o pack_string(bytes_to_hex(locals.client_proof))
    \o pack_bytes(self.plugin_name) \o pack_bytes(self.plugin_list)
    \o pack_bytes(<<>>)

CryptPacket == pack_int(op_crypt) \o pack_string(Arc4) \o pack_string(Symmetric)

\* self.sock.send(p.get_buffer()) of op_cont_auth
AcceptSendContAuth ==
    /\ pc = "cont_auth"
    /\ wire' = Append(wire, SendEv(ContAuthPacket))
    /\ pc' = "auth_response"
    /\ UNCHANGED <<self, stream, pos, translator, result, locals, xsqlda, env>>

\* AcceptAuthResponse going on to op_crypt whatever the reply was
AcceptAuthResponseUnchecked ==
    LET Responded(r) ==
            /\ wire' = Append(wire, RecvEv(r))
            /\ pos' = r.pos
            /\ pc' = "crypt"
    IN  /\ pc = "auth_response"
        /\ Responded(_op_response(Translated(stream, translator), pos))
        /\ UNCHANGED <<self, stream, translator, result, locals, xsqlda, env>>

\* (h, oid, buf) = self._op_response() after op_cont_auth
AcceptAuthResponse ==
    LET Responded(r) ==
            /\ wire' = Append(wire, RecvEv(r))
            /\ pos' = r.pos
            /\ IF r.exc = "none"
               THEN pc' = "crypt" /\ UNCHANGED result
               ELSE pc' = "closed" /\ result' = Result("_op_accept", r)
    IN  /\ pc = "auth_response"
        /\ Responded(_op_response(Translated(stream, translator), pos))
        /\ UNCHANGED <<self, stream, translator, locals, xsqlda, env>>

\* AcceptSendCrypt ending _op_accept when wire_crypt was not asked for
AcceptSendCryptIfAsked ==
    /\ pc = "crypt"
    /\ IF env.wire_crypt
       THEN /\ wire' = Append(wire, SendEv(CryptPacket))
            /\ pc' = "set_translator"
            /\ UNCHANGED result
       ELSE /\ result' = Result("_op_accept", Return(NoArgs, pos))
            /\ pc' = "idle"
            /\ UNCHANGED wire
    /\ UNCHANGED <<self, stream, pos, translator, locals, xsqlda, env>>

\* self.sock.send(p.get_buffer()) of op_crypt
AcceptSendCrypt ==
    /\ pc = "crypt"
    /\ wire' = Append(wire, SendEv(CryptPacket))
    /\ pc' = "set_translator"
    /\ UNCHANGED <<self, stream, pos, translator, result, locals, xsqlda, env>>

\* AcceptSetTranslator leaving the socket without its translator
AcceptSetTranslatorSkipped ==
    /\ pc = "set_translator"
    /\ pc' = "crypt_response"
    /\ UNCHANGED <<self, stream, pos, translator, wire, result, locals, xsqlda,
                   env>>

\* self.sock.set_translator(Arc4(auth_key), Arc4(auth_key))
AcceptSetTranslator ==
    /\ pc = "set_translator"
    /\ translator' = set_translator(translator, locals.auth_key, pos)
    /\ wire' = Append(wire, SetEv(locals.auth_key))
    /\ pc' = "crypt_response"
    /\ UNCHANGED <<self, stream, pos, result, locals, xsqlda, env>>

\* (h, oid, buf) = self._op_response() after op_crypt
AcceptCryptResponse ==
    LET Responded(r) ==
            /\ wire' = Append(wire, RecvEv(r))
            /\ pos' = r.pos
            /\ pc' = After(r)
            /\ result' = Result("_op_accept",
                                IF r.exc = "none"
                                THEN Return(NoArgs, r.pos) ELSE r)
    IN  /\ pc = "crypt_response"
        /\ Responded(_op_response(Translated(stream, translator), pos))
        /\ UNCHANGED <<self, stream, translator, locals, xsqlda, env>>

(***************************************************************************)
(* _op_attach, and the caller taking db_handle from the reply.             *)
(***************************************************************************)
op_create == 20
isc_dpb_page_size == 4
isc_dpb_force_write == 24
isc_dpb_user_name == 28
isc_dpb_password == 29
isc_dpb_password_enc == 30
isc_dpb_lc_ctype == 48
isc_dpb_overwrite == 54
isc_dpb_sql_role_name == 60
isc_dpb_sql_dialect == 63
isc_dpb_set_db_charset == 68

\* DpbPassword with <= in the place of < in the test of accept_version
DpbPasswordUpTo13 ==
    LET enc_pass == get_crypt(self.password)
    IN  IF self.accept_version[1] <= PROTOCOL_VERSION13
        THEN IF self.accept_version[1] = PROTOCOL_VERSION10
                \/ enc_pass = Absent
             THEN <<isc_dpb_password, Len(self.password)>> \o self.password
             ELSE <<isc_dpb_password_enc, Len(enc_pass[1])>> \o enc_pass[1]
        ELSE <<>>

DpbPassword ==
    LET enc_pass == get_crypt(self.password)
    IN  IF self.accept_version[1] < PROTOCOL_VERSION13
        THEN IF self.accept_version[1] = PROTOCOL_VERSION10
                \/ enc_pass = Absent
             THEN <<isc_dpb_password, Len(self.password)>> \o self.password
             ELSE <<isc_dpb_password_enc, Len(enc_pass[1])>> \o enc_pass[1]
        ELSE <<>>

AttachDpb ==
    <<1>> \o <<isc_dpb_lc_ctype, Len(self.charset)>> \o self.charset
    \o <<isc_dpb_user_name, Len(self.user)>> \o self.user
    \o DpbPassword
    \o (IF Len(self.role) > 0
        THEN <<isc_dpb_sql_role_name, Len(self.role)>> \o self.role
        ELSE <<>>)

_op_attach ==
    /\ pc = "idle"
    /\ IF self.accept_version = Absent
       THEN /\ result' = Result("_op_attach",
                                Raise("AttributeError", NoArgs, pos))
            /\ wire' = <<>>
            /\ pc' = "closed"
       ELSE /\ result' = Result("_op_attach", Return(NoArgs, pos))
            /\ wire' = <<SendEv(pack_int(op_attach) \o pack_int(0)
                                \o pack_string(self.filename)
                                \o pack_bytes(AttachDpb))>>
            /\ pc' = pc
    /\ UNCHANGED <<self, stream, pos, translator, locals, xsqlda, env>>

CreateDpb(page_size) ==
    <<1>> \o <<isc_dpb_set_db_charset, Len(self.charset)>> \o self.charset
    \o <<isc_dpb_lc_ctype, Len(self.charset)>> \o self.charset
    \o <<isc_dpb_user_name, Len(self.user)>> \o self.user
    \o DpbPassword
    \o (IF Len(self.role) > 0
        THEN <<isc_dpb_sql_role_name, Len(self.role)>> \o self.role
        ELSE <<>>)
    \o <<isc_dpb_sql_dialect, 4>> \o int_to_bytes(3, 4)
    \o <<isc_dpb_force_write, 4>> \o int_to_bytes(1, 4)
    \o <<isc_dpb_overwrite, 4>> \o int_to_bytes(1, 4)
    \o <<isc_dpb_page_size, 4>> \o int_to_bytes(page_size, 4)

_op_create ==
    \E page_size \in {4096} :
        /\ pc = "idle"
        /\ IF self.accept_version = Absent
           THEN /\ result' = Result("_op_create",
                                    Raise("AttributeError", NoArgs, pos))
                /\ wire' = <<>>
                /\ pc' = "closed"
           ELSE /\ result' = Result("_op_create", Return(NoArgs, pos))
                /\ wire' = <<SendEv(pack_int(op_create) \o pack_int(0)
                                    \o pack_string(self.filename)
                                    \o pack_bytes(CreateDpb(page_size)))>>
                /\ pc' = pc
        /\ UNCHANGED <<self, stream, pos, translator, locals, xsqlda, env>>

(***************************************************************************)
(* The response readers as operations of the session.                      *)
(***************************************************************************)
Read(name, r) ==
    /\ pc = "idle"
    /\ result' = Result(name, r)
    /\ pos' = r.pos
    /\ wire' = <<RecvEv(r)>>
    /\ pc' = After(r)
    /\ UNCHANGED <<self, stream, translator, locals, xsqlda, env>>

DoOpResponse ==
    Read("_op_response", _op_response(Translated(stream, translator), pos))

DoOpFetchResponse ==
    Read("_op_fetch_response",
         _op_fetch_response(Translated(stream, translator), pos, xsqlda))

DoOpSqlResponse ==
    Read("_op_sql_response",
         _op_sql_response(Translated(stream, translator), pos, xsqlda))

DoOpEvent ==
    Read("_op_event", _op_event(Translated(stream, translator), pos))

DoWaitForEvent ==
    Read("_wait_for_event",
         _wait_for_event(Translated(stream, translator), pos))

\* the caller after _op_attach: (h, oid, buf) = _op_response(); db_handle = h
AttachResponse ==
    LET Responded(r) ==
            /\ result' = Result("_op_response", r)
            /\ pos' = r.pos
            /\ wire' = <<RecvEv(r)>>
            /\ self' = IF r.exc = "none"
                       THEN [self EXCEPT !.db_handle = Some(r.val.h)]
                       ELSE self
            /\ pc' = After(r)
    IN  /\ pc = "idle"
        /\ result.op \in {"_op_attach", "_op_create"} /\ result.exc = "none"
        /\ Responded(_op_response(Translated(stream, translator), pos))
        /\ UNCHANGED <<stream, translator, locals, xsqlda, env>>

(***************************************************************************)
(* What the server may put on the wire.                                    *)
(***************************************************************************)
Word(v) == bint_to_bytes(v, 4)

RECURSIVE Dummies(_)
Dummies(k) == IF k = 0 THEN <<>> ELSE Word(op_dummy) \o Dummies(k - 1)

SampleGds == {0, 7, 335544344, isc_sqlerr}
SvItems ==
    {Word(isc_arg_gds) \o Word(c) : c \in SampleGds}
    \cup {Word(isc_arg_number) \o Word(n) : n \in {3}}
    \cup {Word(isc_arg_string) \o pack_bytes(b) : b \in {<<>>, <<117>>}}
    \cup {Word(isc_arg_sql_state) \o pack_bytes(<<117>>)}
    \cup {Word(isc_arg_cstring)}

RECURSIVE SvBodies(_)
SvBodies(n) ==
    IF n = 0 THEN {<<>>}
    ELSE SvBodies(n - 1)
         \cup {b \o i : b \in SvBodies(n - 1), i \in SvItems}

\* two groups, the argument in the second; the example of a failing vector
TwoGroups ==
    Word(isc_arg_gds) \o Word(335544344) \o Word(isc_arg_gds) \o Word(7)
    \o Word(isc_arg_string) \o pack_bytes(<<117>>)
UsersVector ==
    Word(isc_arg_gds) \o Word(335544344)
    \o Word(isc_arg_string) \o pack_bytes(<<117, 115, 101, 114, 115>>)

StatusVectors ==
    {b \o Word(isc_arg_end) :
        b \in SvBodies(MaxSvItems) \cup {TwoGroups, UsersVector}}
SvOk == Word(isc_arg_end)
SvError == Word(isc_arg_gds) \o Word(isc_sqlerr) \o Word(isc_arg_number)
           \o Word(3) \o Word(isc_arg_end)

Oid == <<0, 0, 0, 0, 0, 0, 0, 8>>
ResponseBody(h, buf, sv) == Word(h) \o Oid \o pack_bytes(buf) \o sv
ResponseFrame(h, buf, sv) == Word(op_response) \o ResponseBody(h, buf, sv)

ResponseFrames ==
    {ResponseFrame(5, buf, sv) : buf \in {<<>>, <<9>>}, sv \in StatusVectors}

\* rows of a fetch response for descriptors xs
FF4 == <<255, 255, 255, 255>>
ColumnBytes(x, ind) ==
    (IF x.io_length < 0 THEN pack_bytes(<<97, 98, 99>>)
     ELSE [i \in 1..(((x.io_length + 3) \div 4) * 4) |-> i])
    \o ind

RECURSIVE RowBytes(_, _)
RowBytes(xs, firstInd) ==
    IF Len(xs) = 0 THEN <<>>
    ELSE ColumnBytes(xs[1], firstInd) \o RowBytes(Tail(xs), Zeros(4))

RowChoices(xs) == {RowBytes(xs, ind) : ind \in {Zeros(4), FF4}}
Trailers(counts) ==
    {Word(op) \o Word(status) \o Word(count) :
        op \in {op_fetch_response, op_dummy},
        status \in {0, FetchNoMore}, count \in counts}

RECURSIVE FetchRows(_, _)
FetchRows(xs, n) ==
    IF n = 0 THEN {}
    ELSE {r \o t : r \in RowChoices(xs), t \in Trailers({0})}
         \cup {r \o t \o rest : r \in RowChoices(xs), t \in Trailers({2}),
                                rest \in FetchRows(xs, n - 1)}

FetchFrames(xs) ==
    {Word(op_fetch_response) \o Word(status) \o Word(0) :
        status \in {0, FetchNoMore}}
    \cup {Word(op_fetch_response) \o Word(status) \o Word(1) \o rows :
            status \in {0, FetchNoMore}, rows \in FetchRows(xs, MaxRows)}

SqlFrames(xs) ==
    {Word(op_sql_response) \o Word(0)}
    \cup {Word(op_sql_response) \o Word(1) \o r : r \in RowChoices(xs)}

EventPayloads ==
    {<<>>, <<1>>, <<2>>,
     <<1, 4, 84, 69, 83, 84, 7, 0, 0, 0>>,
     <<1, 4, 84, 69, 83, 84, 0, 0, 0, 7>>,
     <<1, 1, 65, 1, 0, 0, 0, 1, 66, 2, 0, 0, 0>>,
     <<1, 1, 65, 1, 0, 0>>}

EventFrame(payload, event_id) ==
    Word(op_event) \o Word(1) \o pack_bytes(payload) \o Zeros(8)
    \o Word(event_id)

\* payloads made of the version byte and whole records
WholeEventPayloads ==
    {<<1>>,
     <<1, 4, 84, 69, 83, 84, 7, 0, 0, 0>>,
     <<1, 4, 84, 69, 83, 84, 0, 0, 0, 7>>,
     <<1, 1, 65, 1, 0, 0, 0, 1, 66, 2, 0, 0, 0>>}

\* one event frame, or one followed by the frame of a later event
WholeEventFrames ==
    {EventFrame(payload, 42) : payload \in WholeEventPayloads}
    \cup {EventFrame(payload, 42)
            \o Dummies(1) \o EventFrame(<<1, 1, 67, 3, 0, 0, 0>>, 43) :
          payload \in WholeEventPayloads}

WaitEventFrames ==
    {EventFrame(payload, 42) : payload \in EventPayloads}
    \cup WholeEventFrames

OpEventFrame == Word(op_event) \o Word(1) \o Zeros(EventRecvSize - 8) \o Word(42)

ConnectRequestFrames ==
    {Word(op_response) \o Word(5) \o Zeros(8) \o Word(ln) \o <<0, 2>>
     \o <<11, 194>> \o <<127, 0, 0, 1>> \o Zeros(ln - 8) \o sv :
        ln \in {8, 16}, sv \in {SvOk, SvError}}

\* replies whose address buffer is not a whole number of words long: the
\* server pads it to the next word
AddressLengths == {9, 10, 11, 12}

PaddedConnectRequestFrames ==
    {Word(op_response) \o Word(5) \o Zeros(8) \o Word(ln) \o <<0, 2>>
     \o <<11, 194>> \o <<127, 0, 0, 1>> \o Zeros(ln - 8)
     \o Zeros((4 - (ln % 4)) % 4) \o sv :
        ln \in AddressLengths, sv \in {SvOk, SvError}}

\* data of a conditional accept: salt length, salt, two bytes, public key
SrpData(salt, B) ==
    int_to_bytes(Len(salt), 2) \o salt \o <<0, 0>> \o bytes_to_hex(B)

AcceptHeader(op, version) ==
    Word(op) \o <<0, 0, 0, version>> \o Word(1) \o Word(4)

\* one field of a conditional accept, padded to a word
AcceptBytes(b) == pack_bytes(b)

CondAccept(op, version, data, plugin, is_authenticated) ==
    AcceptHeader(op, version) \o AcceptBytes(data) \o AcceptBytes(plugin)
    \o Word(is_authenticated) \o AcceptBytes(<<>>)

SampleOpcodes ==
    {op_exit, op_disconnect, op_reject, op_accept, op_event, op_response,
     op_fetch_response, op_sql_response, op_cond_accept, op_connect}

OpcodeFrames ==
    {Word(op) : op \in SampleOpcodes}
    \cup {AcceptHeader(op, 12) : op \in SampleOpcodes}

\* the server's side of the cipher
Encrypt(key, b) == [i \in 1..Len(b) |-> Xor(b[i], Arc4KeyStream(key, i))]

SessUser == <<117>>
SessPassword == <<112>>
ServerSalt == <<7>>
ServerPublic == <<33>>
ServerKey ==
    client_proof(Upper(SessUser), SessPassword, ServerSalt,
                 client_seed.public, UnsignedBE(ServerPublic),
                 client_seed.private).auth_key

AttachReplies ==
    {ResponseFrame(5, <<>>, SvOk)
        \o (CHOOSE f \in ConnectRequestFrames : TRUE),
     ResponseFrame(0, <<>>, SvError)}

SrpReplies ==
    {ResponseFrame(0, <<>>, SvError),
     ResponseFrame(0, <<>>, SvOk) \o ResponseFrame(0, <<>>, SvOk),
     ResponseFrame(0, <<>>, SvOk)
        \o Encrypt(ServerKey, ResponseFrame(0, <<>>, SvError))}
    \cup {ResponseFrame(0, <<>>, SvOk)
            \o Encrypt(ServerKey, ResponseFrame(0, <<>>, SvOk) \o tail) :
          tail \in AttachReplies}

AcceptStreams ==
    {AcceptHeader(op_accept, v) \o tail :
        v \in {10, 11, 12, 13}, tail \in AttachReplies}
    \cup {CondAccept(op, 13, SrpData(ServerSalt, ServerPublic), Srp, 0)
            \o tail :
          op \in {op_cond_accept, op_accept_data}, tail \in SrpReplies}
    \cup {CondAccept(op_cond_accept, 11, <<>>, plugin, is_authenticated)
            \o tail :
          plugin \in {Legacy_Auth, OtherPlugin},
          is_authenticated \in {0, 1}, tail \in AttachReplies}
    \cup {Word(op_reject), ResponseFrame(0, <<>>, SvError),
          ResponseFrame(0, <<>>, SvOk), AcceptHeader(op_connect, 10)}

SessionStreams == {Dummies(k) \o s : k \in 0..MaxDummy, s \in AcceptStreams}

(***************************************************************************)
(* The session.                                                            *)
(***************************************************************************)
NewSession ==
    [db_handle |-> Absent, accept_version |-> Absent,
     accept_architecture |-> Absent, accept_type |-> Absent,
     plugin_name |-> <<>>, plugin_list |-> <<>>,
     client_public_key |-> Absent, client_private_key |-> Absent,
     user |-> SessUser, password |-> SessPassword, role |-> <<>>,
     filename |-> <<102>>, charset |-> <<85, 84, 70, 56>>]

Envs ==
    [PYTHON_MAJOR_VER : {2, 3}, seed : {1, 2}, have_crypt : BOOLEAN,
     USER : {<<111>>}, hostname : {<<104>>}]

Xsqldas == {<<[io_length |-> -1]>>, <<[io_length |-> 2], [io_length |-> -1]>>}

Init ==
    /\ env \in {e @@ [wire_crypt |-> w] :
                    e \in {e \in Envs : e.PYTHON_MAJOR_VER = 3},
                    w \in BOOLEAN}
    /\ stream \in SessionStreams
    /\ self = NewSession
    /\ pos = 0
    /\ translator = NoTranslator
    /\ wire = <<>>
    /\ result = NoResult
    /\ pc = "new"
    /\ locals = [client_proof |-> <<>>, auth_key |-> 0]
    /\ xsqlda \in {<<[io_length |-> -1]>>}

Next ==
    \/ _op_connect
    \/ _op_accept
    \/ AcceptSendContAuth
    \/ AcceptAuthResponse
    \/ AcceptSendCrypt
    \/ AcceptSetTranslator
    \/ AcceptCryptResponse
    \/ _op_attach
    \/ _op_create
    \/ AttachResponse
    \/ _op_drop_database
    \/ _op_service_info
    \/ _op_service_start
    \/ _op_service_detach
    \/ _op_info_database
    \/ _op_transaction
    \/ _op_allocate_statement
    \/ _op_exec_immediate
    \/ _op_detach
    \/ _op_que_events
    \/ _op_cancel_events
    \/ _op_connect_request
    \/ DoOpResponse
    \/ DoOpFetchResponse
    \/ DoOpSqlResponse
    \/ DoOpEvent
    \/ DoWaitForEvent

Spec == Init /\ [][Next]_vars

(***************************************************************************)
(* One reader call on a stream the server has filled.  The session is      *)
(* either connected and about to read the accept, or attached and about to *)
(* read the reply of an operation.                                         *)
(***************************************************************************)
\* the session once _op_connect has offered plugin Srp
ConnectedSession ==
    [NewSession EXCEPT
        !.client_public_key = Some(client_seed.public),
        !.client_private_key = Some(client_seed.private),
        !.plugin_name = Srp,
        !.plugin_list = Srp]

\* the session once a plain accept and an attach have succeeded
AttachedSession ==
    [NewSession EXCEPT
        !.db_handle = Some(5),
        !.accept_version = Some(13),
        !.accept_architecture = Some(1),
        !.accept_type = Some(4)]

Framed(frames) == {Dummies(k) \o f : k \in 0..MaxDummy, f \in frames}

AcceptReadStreams == Framed(AcceptStreams \cup OpcodeFrames)
ResponseStreams == Framed(ResponseFrames)
FetchStreamTable == [xs \in Xsqldas |-> Framed(FetchFrames(xs))]
SqlStreamTable == [xs \in Xsqldas |-> Framed(SqlFrames(xs))]
FetchStreams(xs) == FetchStreamTable[xs]
SqlStreams(xs) == SqlStreamTable[xs]
OtherStreams ==
    Framed(WaitEventFrames \cup {OpEventFrame} \cup OpcodeFrames
           \cup ConnectRequestFrames \cup PaddedConnectRequestFrames)

Fresh == result.op = "none"

InitRead ==
    /\ env \in {e \in Envs : e.seed = 1 /\ e.have_crypt}
    /\ pos = 0
    /\ translator = NoTranslator
    /\ wire = <<>>
    /\ result = NoResult
    /\ locals = [client_proof |-> <<>>, auth_key |-> 0]
    /\ xsqlda \in Xsqldas
    /\ \/ /\ pc = "connected"
          /\ self = ConnectedSession
          /\ env.PYTHON_MAJOR_VER = 3
          /\ xsqlda = <<[io_length |-> -1]>>
          /\ stream \in AcceptReadStreams
       \/ /\ pc = "idle"
          /\ self = AttachedSession
          /\ \/ /\ xsqlda = <<[io_length |-> -1]>>
                /\ stream \in ResponseStreams
             \/ /\ env.PYTHON_MAJOR_VER = 3
                /\ stream \in FetchStreams(xsqlda) \cup SqlStreams(xsqlda)
             \/ /\ env.PYTHON_MAJOR_VER = 3
                /\ xsqlda = <<[io_length |-> -1]>>
                /\ stream \in OtherStreams

NextRead ==
    \/ _op_accept
    \/ AcceptSendContAuth
    \/ AcceptAuthResponse
    \/ AcceptSendCrypt
    \/ AcceptSetTranslator
    \/ AcceptCryptResponse
    \/ Fresh /\ DoOpResponse
    \/ Fresh /\ DoOpFetchResponse
    \/ Fresh /\ DoOpSqlResponse
    \/ Fresh /\ DoOpEvent
    \/ Fresh /\ DoWaitForEvent
    \/ Fresh /\ _op_connect_request

SpecRead == InitRead /\ [][NextRead]_vars

(***************************************************************************)
(* params_to_blr, _create_blob and the issuers that send a value buffer,   *)
(* one step for each socket call.                                          *)
(***************************************************************************)
op_open_blob == 35
op_put_segment == 37
op_close_blob == 39
op_batch_segments == 44
op_create_blob2 == 57
op_execute == 63
op_execute2 == 76

\* consts.MAX_CHAR_LENGTH and consts.BLOB_SEGMENT_SIZE, scaled down
MAX_CHAR_LENGTH == 3
BLOB_SEGMENT_SIZE == 2

\* a parameter value: its Python type t and what the type carries.  A float
\* carries the tuple of decimal.Decimal(str(p)); special is the exponent of
\* a Decimal that is not a number ("F" for an infinity, "n" for a NaN).
Param(t) ==
    [t |-> t, b |-> <<>>, n |-> 0, sign |-> 0, digits |-> <<>>,
     exponent |-> 0, special |-> "", date |-> <<1, 1, 1>>,
     time |-> <<0, 0, 0, 0>>]

\* convert_date with "c = jy // 100" taken after "jy -= 100 * c"
convert_date_late_century(v) ==
    LET i == v[2] + 9
        jy0 == v[1] + (i \div 12) - 1
        jm == i % 12
        c0 == jy0 \div 100
        jy == jy0 - 100 * c0
        c == jy \div 100
        j == ((146097 * c) \div 4) + ((1461 * jy) \div 4)
             + ((153 * jm + 2) \div 5) + v[3] - 678882
    IN  bint_to_bytes(j, 4)

convert_date(v) ==
    LET i == v[2] + 9
        jy0 == v[1] + (i \div 12) - 1
        jm == i % 12
        c == jy0 \div 100
        jy == jy0 - 100 * c
        j == ((146097 * c) \div 4) + ((1461 * jy) \div 4)
             + ((153 * jm + 2) \div 5) + v[3] - 678882
    IN  bint_to_bytes(j, 4)

convert_time(v) ==
    bint_to_bytes((v[1] * 3600 + v[2] * 60 + v[3]) * 10000 + (v[4] \div 100),
                  4)

RECURSIVE DigitsValue(_)
DigitsValue(digits) ==
    IF Len(digits) = 0 THEN 0
    ELSE 10 * DigitsValue(SubSeq(digits, 1, Len(digits) - 1))
         + digits[Len(digits)]

\* one turn of the loop of params_to_blr for a parameter that needs no BLOB:
\* the bytes added to blr and to values, or the exception
ParamEncode(p) ==
    LET Enc(tag, v, present) ==
            [exc |-> "none", blr |-> tag \o <<7, 0>>,
             values |-> v \o (IF present THEN Zeros(4) ELSE FF4)]
        Str(v, present) ==
            Enc(<<14, Len(v) % 256, Len(v) \div 256>>,
                v \o Zeros((4 - Len(v)) % 4), present)
        Dec(v, exponent) ==
            Enc(<<16, IF exponent < 0 THEN exponent + 256 ELSE exponent>>,
                bint_to_bytes(v, 8), TRUE)
    IN  CASE p.t \in {"str", "bytes"} -> Str(p.b, TRUE)
          [] p.t = "int" -> Enc(<<8, 0>>, bint_to_bytes(p.n, 4), TRUE)
          [] p.t = "float" /\ p.special = "F" /\ p.sign = 0 ->
                Enc(<<10>>, <<127, 128, 0, 0>>, TRUE)
          [] p.t \in {"float", "Decimal"} ->
                IF p.special # ""
                THEN [exc |-> "TypeError", blr |-> <<>>, values |-> <<>>]
                ELSE Dec(IF p.sign # 0 THEN 0 - DigitsValue(p.digits)
                         ELSE DigitsValue(p.digits), p.exponent)
          [] p.t = "date" -> Enc(<<12>>, convert_date(p.date), TRUE)
          [] p.t = "time" -> Enc(<<13>>, convert_time(p.time), TRUE)
          [] p.t = "datetime" ->
                Enc(<<35>>, convert_date(p.date) \o convert_time(p.time),
                    TRUE)
          [] p.t = "bool" ->
                Enc(<<23>>, IF p.n # 0 THEN <<1, 0, 0, 0>> ELSE Zeros(4),
                    TRUE)
          [] p.t = "NoneType" -> Str(<<>>, FALSE)
          [] OTHER -> Str(p.b, TRUE)

\* len(p) > MAX_CHAR_LENGTH of a str or bytes parameter
Spills(p) == p.t \in {"str", "bytes"} /\ Len(p.b) > MAX_CHAR_LENGTH

CreateBlob2Packet(trans_handle) ==
    pack_int(op_create_blob2) \o pack_int(0) \o pack_int(trans_handle)
    \o pack_int(0) \o pack_int(0)
PutSegmentPacket(blob_handle, b) ==
    pack_int(op_put_segment) \o pack_int(blob_handle) \o pack_int(Len(b))
    \o pack_int(Len(b)) \o b
CloseBlobPacket(blob_handle) ==
    pack_int(op_close_blob) \o pack_int(blob_handle)
BatchSegmentsPacket(blob_handle, seg_data) ==
    pack_int(op_batch_segments) \o pack_int(blob_handle)
    \o pack_int(Len(seg_data) + 2) \o pack_int(Len(seg_data) + 2)
    \o int_to_bytes(Len(seg_data), 2) \o seg_data
    \o Zeros((4 - (Len(seg_data) + 2)) % 4)
OpenBlobPacket(blob_id, trans_handle) ==
    pack_int(op_open_blob) \o pack_int(trans_handle) \o blob_id
ExecutePacket(op, stmt_handle, trans_handle, blr, values, n) ==
    pack_int(op) \o pack_int(stmt_handle) \o pack_int(trans_handle)
    \o pack_bytes(blr) \o pack_int(0) \o pack_int(n) \o values

\* an issuer without db_handle: the packet is built and sent
Send(name, packet) ==
    /\ pc = "idle"
    /\ result' = Result(name, Return(NoArgs, pos))
    /\ wire' = <<SendEv(packet)>>
    /\ UNCHANGED <<pc, self, stream, pos, translator, locals, xsqlda, env>>

\* values of the arguments
SampleParams ==
    {[Param("int") EXCEPT !.n = 42], [Param("int") EXCEPT !.n = -1],
     [Param("str") EXCEPT !.b = <<104, 105>>],
     [Param("bytes") EXCEPT !.b = <<1, 2, 3>>],
     [Param("bytes") EXCEPT !.b = <<1, 2, 3, 4>>],
     [Param("str") EXCEPT !.b = <<1, 2, 3, 4, 5>>],
     Param("NoneType"),
     [Param("date") EXCEPT !.date = <<2020, 1, 1>>],
     [Param("time") EXCEPT !.time = <<1, 2, 3, 450>>],
     [Param("datetime") EXCEPT !.date = <<1999, 12, 31>>,
                               !.time = <<23, 59, 59, 999999>>],
     [Param("bool") EXCEPT !.n = 1], Param("bool"),
     [Param("float") EXCEPT !.special = "F", !.digits = <<0>>],
     [Param("float") EXCEPT !.special = "F", !.digits = <<0>>, !.sign = 1],
     [Param("float") EXCEPT !.digits = <<1, 5>>, !.exponent = -1],
     [Param("Decimal") EXCEPT !.digits = <<1, 2>>, !.exponent = -2,
                              !.sign = 1],
     [Param("list") EXCEPT !.b = <<91, 93>>]}

ExampleParams ==
    <<[Param("int") EXCEPT !.n = 42],
      [Param("str") EXCEPT !.b = <<104, 105>>],
      Param("NoneType"),
      [Param("date") EXCEPT !.date = <<2020, 1, 1>>]>>

ParamLists ==
    {<<>>, ExampleParams} \cup {<<p>> : p \in SampleParams}
    \cup {<<p, q>> : p \in SampleParams, q \in SampleParams}

SampleSegments == {<<>>, <<1>>, <<1, 2>>, <<1, 2, 3>>, <<1, 2, 3, 4>>}

\* the j-th reply of the server: handle 10 + j, object id j
ReplyFrame(j) ==
    Word(op_response) \o Word(10 + j) \o <<0, 0, 0, 0, 0, 0, 0, j>>
    \o pack_bytes(<<>>) \o SvOk

RECURSIVE Replies(_, _)
Replies(j, n) == IF j > n THEN <<>> ELSE ReplyFrame(j) \o Replies(j + 1, n)

MaxReplies == 8
ReplyStreams ==
    {Replies(1, n) : n \in 0..MaxReplies}
    \cup {Replies(1, n) \o ResponseFrame(0, <<>>, SvError) :
            n \in 0..(MaxReplies - 1)}

NoLocals == [client_proof |-> <<>>, auth_key |-> 0]

\* _op_execute up to the call of params_to_blr
_op_execute ==
    \E stmt_handle \in {3}, trans_handle \in {4}, params \in ParamLists :
        /\ pc = "idle" /\ Fresh
        /\ IF Len(params) = 0
           THEN /\ wire' = <<SendEv(ExecutePacket(op_execute, stmt_handle,
                                                  trans_handle, <<>>, <<>>,
                                                  0))>>
                /\ result' = Result("_op_execute", Return(NoArgs, pos))
                /\ UNCHANGED <<pc, locals>>
           ELSE /\ locals' = [stmt_handle |-> stmt_handle,
                              trans_handle |-> trans_handle,
                              params |-> params, k |-> 1,
                              blr |-> <<5, 2, 4, 0,
                                        (Len(params) * 2) % 256,
                                        (Len(params) * 2) \div 256>>,
                              values |-> <<>>, b |-> <<>>, i |-> 0,
                              blob_handle |-> 0, blob_id |-> <<>>,
                              caller |-> "_op_execute", output_blr |-> <<>>]
                /\ wire' = <<>>
                /\ pc' = "params"
                /\ UNCHANGED result
        /\ UNCHANGED <<self, stream, pos, translator, xsqlda, env>>

\* _op_execute2 up to the call of params_to_blr
_op_execute2 ==
    \E stmt_handle \in {3}, trans_handle \in {4}, params \in ParamLists,
       output_blr \in {<<5, 2, 4, 0, 0, 0, 255, 76>>} :
        /\ pc = "idle" /\ Fresh
        /\ IF Len(params) = 0
           THEN /\ wire' = <<SendEv(ExecutePacket(op_execute2, stmt_handle,
                                                  trans_handle, <<>>, <<>>,
                                                  0)),
                             SendEv(pack_bytes(output_blr) \o pack_int(0))>>
                /\ result' = Result("_op_execute2", Return(NoArgs, pos))
                /\ UNCHANGED <<pc, locals>>
           ELSE /\ locals' = [stmt_handle |-> stmt_handle,
                              trans_handle |-> trans_handle,
                              params |-> params, k |-> 1,
                              blr |-> <<5, 2, 4, 0,
                                        (Len(params) * 2) % 256,
                                        (Len(params) * 2) \div 256>>,
                              values |-> <<>>, b |-> <<>>, i |-> 0,
                              blob_handle |-> 0, blob_id |-> <<>>,
                              caller |-> "_op_execute2",
                              output_blr |-> output_blr]
                /\ wire' = <<>>
                /\ pc' = "params"
                /\ UNCHANGED result
        /\ UNCHANGED <<self, stream, pos, translator, xsqlda, env>>

\* params_to_blr called on its own, up to the loop
params_to_blr ==
    \E trans_handle \in {4}, params \in ParamLists :
        /\ pc = "idle" /\ Fresh
        /\ locals' = [stmt_handle |-> 0, trans_handle |-> trans_handle,
                      params |-> params, k |-> 1,
                      blr |-> <<5, 2, 4, 0, (Len(params) * 2) % 256,
                                (Len(params) * 2) \div 256>>,
                      values |-> <<>>, b |-> <<>>, i |-> 0,
                      blob_handle |-> 0, blob_id |-> <<>>,
                      caller |-> "params_to_blr", output_blr |-> <<>>]
        /\ wire' = <<>>
        /\ pc' = "params"
        /\ UNCHANGED <<self, stream, pos, translator, result, xsqlda, env>>

\* one turn of "for p in params" up to the call of _create_blob
ParamsToBlr ==
    LET p == locals.params[locals.k]
        Turn(e) ==
            IF e.exc # "none"
            THEN /\ result' = Result(locals.caller,
                                     Raise(e.exc, NoArgs, pos))
                 /\ pc' = "closed"
                 /\ UNCHANGED locals
            ELSE /\ locals' = [locals EXCEPT !.k = @ + 1,
                                             !.blr = @ \o e.blr,
                                             !.values = @ \o e.values]
                 /\ UNCHANGED <<pc, result>>
    IN  /\ pc = "params"
        /\ locals.k <= Len(locals.params)
        /\ IF Spills(p)
           THEN /\ locals' = [locals EXCEPT !.b = p.b]
                /\ pc' = "create_blob2"
                /\ UNCHANGED result
           ELSE Turn(ParamEncode(p))
        /\ UNCHANGED <<self, stream, pos, translator, wire, xsqlda, env>>

\* the end of params_to_blr and self.sock.send(p.get_buffer() + values)
ExecuteSend ==
    /\ pc = "params"
    /\ locals.caller = "_op_execute"
    /\ locals.k > Len(locals.params)
    /\ wire' = Append(wire,
                      SendEv(ExecutePacket(op_execute, locals.stmt_handle,
                                           locals.trans_handle,
                                           locals.blr \o <<255, 76>>,
                                           locals.values, 1)))
    /\ result' = Result("_op_execute",
                        Return([blr |-> locals.blr \o <<255, 76>>,
                                values |-> locals.values], pos))
    /\ pc' = "idle"
    /\ UNCHANGED <<self, stream, pos, translator, locals, xsqlda, env>>

\* the end of params_to_blr and the two sends of _op_execute2
Execute2Send ==
    /\ pc = "params"
    /\ locals.caller = "_op_execute2"
    /\ locals.k > Len(locals.params)
    /\ wire' = wire
               \o <<SendEv(ExecutePacket(op_execute2, locals.stmt_handle,
                                         locals.trans_handle,
                                         locals.blr \o <<255, 76>>,
                                         locals.values, 1)),
                    SendEv(pack_bytes(locals.output_blr) \o pack_int(0))>>
    /\ result' = Result("_op_execute2",
                        Return([blr |-> locals.blr \o <<255, 76>>,
                                values |-> locals.values], pos))
    /\ pc' = "idle"
    /\ UNCHANGED <<self, stream, pos, translator, locals, xsqlda, env>>

\* the end of params_to_blr called on its own: return blr, values
ParamsReturn ==
    /\ pc = "params"
    /\ locals.caller = "params_to_blr"
    /\ locals.k > Len(locals.params)
    /\ result' = Result("params_to_blr",
                        Return([blr |-> locals.blr \o <<255, 76>>,
                                values |-> locals.values], pos))
    /\ pc' = "idle"
    /\ UNCHANGED <<self, stream, pos, translator, wire, locals, xsqlda, env>>

\* a socket call of _create_blob that sends a request
BlobSend(at, packet, next) ==
    /\ pc = at
    /\ wire' = Append(wire, SendEv(packet))
    /\ pc' = next
    /\ UNCHANGED <<self, stream, pos, translator, result, locals, xsqlda, env>>

\* BlobResponse with the error caught: params_to_blr ends with what it has
BlobResponseSwallowed(at, r, next, locals1) ==
    /\ pc = at
    /\ wire' = Append(wire, RecvEv(r))
    /\ pos' = r.pos
    /\ IF r.exc = "none"
       THEN /\ pc' = next
            /\ locals' = locals1
       ELSE /\ pc' = "params"
            /\ locals' = [locals EXCEPT !.k = Len(locals.params) + 1]
    /\ UNCHANGED <<self, stream, translator, result, xsqlda, env>>

\* self._op_response() of _create_blob: an error leaves _create_blob,
\* params_to_blr and _op_execute
BlobResponse(at, r, next, locals1) ==
    /\ pc = at
    /\ wire' = Append(wire, RecvEv(r))
    /\ pos' = r.pos
    /\ IF r.exc = "none"
       THEN /\ pc' = next
            /\ locals' = locals1
            /\ UNCHANGED result
       ELSE /\ pc' = "closed"
            /\ result' = Result(locals.caller, r)
            /\ UNCHANGED locals
    /\ UNCHANGED <<self, stream, translator, xsqlda, env>>

CreateBlobSend ==
    BlobSend("create_blob2", CreateBlob2Packet(locals.trans_handle),
             "create_response")

CreateBlobResponse ==
    LET Got(r) ==
            BlobResponse("create_response", r, "put_segment",
                         IF r.exc = "none"
                         THEN [locals EXCEPT !.blob_handle = r.val.h,
                                             !.blob_id = r.val.oid,
                                             !.i = 0]
                         ELSE locals)
    IN  Got(_op_response(Translated(stream, translator), pos))

PutSegmentSend ==
    /\ pc = "put_segment"
    /\ locals.i < Len(locals.b)
    /\ BlobSend("put_segment",
                PutSegmentPacket(locals.blob_handle,
                                 Slice(locals.b, locals.i,
                                       locals.i + BLOB_SEGMENT_SIZE)),
                "segment_response")

PutSegmentResponse ==
    LET Got(r) ==
            BlobResponse("segment_response", r, "put_segment",
                         [locals EXCEPT !.i = @ + BLOB_SEGMENT_SIZE])
    IN  Got(_op_response(Translated(stream, translator), pos))

CloseBlobSend ==
    /\ pc = "put_segment"
    /\ locals.i >= Len(locals.b)
    /\ BlobSend("put_segment", CloseBlobPacket(locals.blob_handle),
                "close_response")

\* CloseBlobResponse taking the object id of the response it has just read
CloseBlobResponseLastId ==
    LET Got(r) ==
            BlobResponse("close_response", r, "params",
                         IF r.exc = "none"
                         THEN [locals EXCEPT
                                  !.k = @ + 1,
                                  !.blr = @ \o <<9, 0>> \o <<7, 0>>,
                                  !.values = @ \o r.val.oid \o Zeros(4)]
                         ELSE locals)
    IN  Got(_op_response(Translated(stream, translator), pos))

\* the last response of _create_blob, "return blob_id" and the rest of the
\* turn of params_to_blr
CloseBlobResponse ==
    LET Got(r) ==
            BlobResponse("close_response", r, "params",
                         [locals EXCEPT
                             !.k = @ + 1,
                             !.blr = @ \o <<9, 0>> \o <<7, 0>>,
                             !.values = @ \o locals.blob_id \o Zeros(4)])
    IN  Got(_op_response(Translated(stream, translator), pos))

_op_put_segment ==
    \E blob_handle \in {11}, b \in SampleSegments :
        Fresh /\ Send("_op_put_segment", PutSegmentPacket(blob_handle, b))

_op_batch_segments ==
    \E blob_handle \in {11}, seg_data \in SampleSegments :
        Fresh /\ Send("_op_batch_segments",
                      BatchSegmentsPacket(blob_handle, seg_data))

_op_open_blob ==
    \E blob_id \in {<<0, 0, 0, 0, 0, 0, 0, 1>>}, trans_handle \in {4} :
        Fresh /\ Send("_op_open_blob", OpenBlobPacket(blob_id, trans_handle))

InitSend ==
    /\ env \in {e \in Envs : e.PYTHON_MAJOR_VER = 3 /\ e.seed = 1
                             /\ e.have_crypt}
    /\ stream \in ReplyStreams
    /\ self = AttachedSession
    /\ pos = 0
    /\ translator = NoTranslator
    /\ wire = <<>>
    /\ result = NoResult
    /\ pc = "idle"
    /\ locals = NoLocals
    /\ xsqlda = <<[io_length |-> -1]>>

NextSend ==
    \/ _op_execute
    \/ ParamsToBlr
    \/ params_to_blr
    \/ _op_execute2
    \/ ExecuteSend
    \/ Execute2Send
    \/ ParamsReturn
    \/ CreateBlobSend
    \/ CreateBlobResponse
    \/ PutSegmentSend
    \/ PutSegmentResponse
    \/ CloseBlobSend
    \/ CloseBlobResponse
    \/ _op_put_segment
    \/ _op_batch_segments
    \/ _op_open_blob

SpecSend == InitSend /\ [][NextSend]_vars

(***************************************************************************)
(* recv_channel, one step for each turn of its loop: sock.recv returns any *)
(* number of the bytes asked for, at least one, or nothing when the peer   *)
(* has closed; with a timeout set, select may find no data ready.          *)
(***************************************************************************)
MaxRecv == 6        \* nbytes of a call
MaxStream == 8      \* bytes the peer sends before it closes

\* n after lines 136-138
RecvLengthModulo(nbytes, word_alignment) ==
    IF word_alignment /\ (nbytes % 4) # 0
    THEN nbytes + (nbytes % 4) ELSE nbytes

RecvLength(nbytes, word_alignment) ==
    IF word_alignment /\ (nbytes % 4) # 0
    THEN nbytes + (4 - (nbytes % 4)) ELSE nbytes

\* lines 149-151 without the test of len(r)
RecvOutcomeUnchecked(r, nbytes, p) ==
    Return(Slice(r, 0, nbytes), p)

\* lines 149-151 with len(r) tested against the aligned length
RecvOutcomeAligned(r, nbytes, p) ==
    IF Len(r) < RecvLength(nbytes, locals.word_alignment) THEN RecvFailed(p)
    ELSE Return(Slice(r, 0, nbytes), p)

\* lines 149-151
RecvOutcome(r, nbytes, p) ==
    IF Len(r) < nbytes THEN RecvFailed(p)
    ELSE Return(Slice(r, 0, nbytes), p)

RecvCall ==
    \E nbytes \in 0..MaxRecv, word_alignment \in BOOLEAN,
       timeout \in {Absent, Some(1)} :
        /\ pc = "idle" /\ Fresh
        /\ locals' = [nbytes |-> nbytes, word_alignment |-> word_alignment,
                      timeout |-> timeout,
                      n |-> RecvLength(nbytes, word_alignment),
                      r |-> <<>>, left |-> ""]
        /\ pc' = "recv"
        /\ UNCHANGED <<self, stream, pos, translator, wire, result, xsqlda,
                       env>>

\* b = self.sock.recv(n); r += b; n -= len(b)
RecvSome ==
    \E k \in 1..MaxStream :
        /\ pc = "recv"
        /\ locals.n # 0
        /\ k <= locals.n
        /\ k <= Len(stream) - pos
        /\ locals' = [locals EXCEPT !.r = @ \o SubSeq(stream, pos + 1, pos + k),
                                    !.n = @ - k]
        /\ pos' = pos + k
        /\ UNCHANGED <<pc, self, stream, translator, wire, result, xsqlda,
                       env>>

\* if not b: break
RecvClosed ==
    /\ pc = "recv"
    /\ locals.n # 0
    /\ Len(stream) = pos
    /\ locals' = [locals EXCEPT !.left = "closed"]
    /\ pc' = "recv_end"
    /\ UNCHANGED <<self, stream, pos, translator, wire, result, xsqlda, env>>

\* select(...)[0] == []: break
RecvTimeout ==
    /\ pc = "recv"
    /\ locals.n # 0
    /\ locals.timeout # Absent
    /\ locals' = [locals EXCEPT !.left = "timeout"]
    /\ pc' = "recv_end"
    /\ UNCHANGED <<self, stream, pos, translator, wire, result, xsqlda, env>>

RecvEnd ==
    LET Ended(r) ==
            /\ result' = Result("recv_channel", r)
            /\ pc' = After(r)
    IN  /\ \/ pc = "recv" /\ locals.n = 0
           \/ pc = "recv_end"
        /\ Ended(RecvOutcome(locals.r, locals.nbytes, pos))
        /\ UNCHANGED <<self, stream, pos, translator, wire, locals, xsqlda,
                       env>>

InitRecv ==
    /\ env \in {e \in Envs : e.PYTHON_MAJOR_VER = 3 /\ e.seed = 1
                             /\ e.have_crypt}
    /\ stream \in {[i \in 1..n |-> i] : n \in 0..MaxStream}
    /\ self = AttachedSession
    /\ pos = 0
    /\ translator = NoTranslator
    /\ wire = <<>>
    /\ result = NoResult
    /\ pc = "idle"
    /\ locals = NoLocals
    /\ xsqlda = <<[io_length |-> -1]>>

NextRecv ==
    \/ RecvCall
    \/ RecvSome
    \/ RecvClosed
    \/ RecvTimeout
    \/ RecvEnd

SpecRecv == InitRecv /\ [][NextRecv]_vars

(***************************************************************************)
(* pack_cnct_param of uid, the loop of the CNCT_specific_data split turn   *)
(* by turn.  bs() builds a byte string and takes values of 0 to 255 only.  *)
(***************************************************************************)
MaxTurns == 3

\* bs(byte_array) is defined for byte_array
InBytes(byte_array) == \A j \in 1..Len(byte_array) : byte_array[j] \in 0..255

CnctKeys ==
    {CNCT_user, CNCT_host, CNCT_user_verification, CNCT_specific_data,
     CNCT_plugin_name, CNCT_login, CNCT_plugin_list, CNCT_client_crypt}
CnctLengths ==
    {n \in {t * CnctChunk + d : t \in 0..MaxTurns, d \in {-1, 0, 1, 2}} :
        n >= 0}
    \cup {256 * CnctChunk, 256 * CnctChunk + 1}
CnctPayloads == {[j \in 1..n |-> j % 251] : n \in CnctLengths}

\* pack_cnct_param(k, v) up to the loop
CnctCall ==
    \E k \in CnctKeys, v \in CnctPayloads :
        /\ pc = "idle" /\ Fresh
        /\ locals' = [k |-> k, param |-> v, v |-> v, b |-> <<>>, i |-> 0]
        /\ IF k # CNCT_specific_data
           THEN /\ result' =
                    Result("pack_cnct_param",
                           IF InBytes(<<k, Len(v)>>)
                           THEN Return([b |-> <<k, Len(v)>> \o v], pos)
                           ELSE Raise("ValueError", NoArgs, pos))
                /\ pc' = pc
           ELSE /\ pc' = "specific_data"
                /\ UNCHANGED result
        /\ UNCHANGED <<self, stream, pos, translator, wire, xsqlda, env>>

\* CnctTurn without "i += 1"
CnctTurnSameIndex ==
    /\ pc = "specific_data"
    /\ Len(locals.v) > CnctChunk
    /\ IF InBytes(<<locals.k, 255, locals.i>>)
       THEN /\ locals' =
                [locals EXCEPT
                    !.b = @ \o <<locals.k, 255, locals.i>>
                          \o SubSeq(locals.v, 1, CnctChunk),
                    !.v = SubSeq(@, CnctChunk + 1, Len(@))]
            /\ UNCHANGED <<pc, result>>
       ELSE /\ result' = Result("pack_cnct_param",
                                Raise("ValueError", NoArgs, pos))
            /\ pc' = "closed"
            /\ UNCHANGED locals
    /\ UNCHANGED <<self, stream, pos, translator, wire, xsqlda, env>>

\* one turn of "while len(v) > 254"
CnctTurn ==
    /\ pc = "specific_data"
    /\ Len(locals.v) > CnctChunk
    /\ IF InBytes(<<locals.k, 255, locals.i>>)
       THEN /\ locals' =
                [locals EXCEPT
                    !.b = @ \o <<locals.k, 255, locals.i>>
                          \o SubSeq(locals.v, 1, CnctChunk),
                    !.v = SubSeq(@, CnctChunk + 1, Len(@)),
                    !.i = @ + 1]
            /\ UNCHANGED <<pc, result>>
       ELSE /\ result' = Result("pack_cnct_param",
                                Raise("ValueError", NoArgs, pos))
            /\ pc' = "closed"
            /\ UNCHANGED locals
    /\ UNCHANGED <<self, stream, pos, translator, wire, xsqlda, env>>

\* the last chunk and the return
CnctEnd ==
    /\ pc = "specific_data"
    /\ Len(locals.v) <= CnctChunk
    /\ IF InBytes(<<locals.k, Len(locals.v) + 1, locals.i>>)
       THEN /\ result' =
                Result("pack_cnct_param",
                       Return([b |-> locals.b
                                     \o <<locals.k, Len(locals.v) + 1,
                                          locals.i>>
                                     \o locals.v], pos))
            /\ pc' = "idle"
       ELSE /\ result' = Result("pack_cnct_param",
                                Raise("ValueError", NoArgs, pos))
            /\ pc' = "closed"
    /\ UNCHANGED <<self, stream, pos, translator, wire, locals, xsqlda, env>>

InitCnct ==
    /\ env \in {e \in Envs : e.PYTHON_MAJOR_VER = 3 /\ e.seed = 1
                             /\ e.have_crypt}
    /\ stream = <<>>
    /\ self = NewSession
    /\ pos = 0
    /\ translator = NoTranslator
    /\ wire = <<>>
    /\ result = NoResult
    /\ pc = "idle"
    /\ locals = NoLocals
    /\ xsqlda = <<>>

NextCnct ==
    \/ CnctCall
    \/ CnctTurn
    \/ CnctEnd

\* the caller runs pack_cnct_param to its end
SpecCnct == InitCnct /\ [][NextCnct]_vars /\ WF_vars(CnctTurn \/ CnctEnd)

(***************************************************************************)
(* convert_date on the dates of datetime.date, a date being <<year, month, *)
(* day>> of the proleptic Gregorian calendar, walked day by day.           *)
(***************************************************************************)
YearSpan == 6

\* the years the walks start in: both ends of datetime.date, the year 2017
\* and a whole cycle of 400 years, which holds the date of offset 0
StartYears ==
    {1, 2017, 9999 - YearSpan}
    \cup {y \in 1596..2000 : y % YearSpan = 0}

IsLeap(y) == (y % 4 = 0) /\ ((y % 100 # 0) \/ (y % 400 = 0))
DaysIn(y, m) ==
    IF m = 2 THEN (IF IsLeap(y) THEN 29 ELSE 28)
    ELSE IF m \in {4, 6, 9, 11} THEN 30 ELSE 31

\* v + datetime.timedelta(1)
NextDay(v) ==
    IF v[3] < DaysIn(v[1], v[2]) THEN <<v[1], v[2], v[3] + 1>>
    ELSE IF v[2] < 12 THEN <<v[1], v[2] + 1, 1>>
    ELSE <<v[1] + 1, 1, 1>>

\* convert_date(v) for the date the caller holds
ConvertDate ==
    /\ pc = "idle" /\ Fresh
    /\ result' = Result("convert_date",
                        Return([b |-> convert_date(locals.v)], pos))
    /\ UNCHANGED <<pc, self, stream, pos, translator, wire, locals, xsqlda,
                   env>>

\* the caller goes on to the next day
NextDate ==
    /\ pc = "idle" /\ result.op = "convert_date"
    /\ locals.v # <<9999, 12, 31>>
    /\ locals.n < 366 * YearSpan
    /\ locals' = [v |-> NextDay(locals.v), n |-> locals.n + 1]
    /\ result' = NoResult
    /\ UNCHANGED <<pc, self, stream, pos, translator, wire, xsqlda, env>>

InitDate ==
    /\ env \in {e \in Envs : e.PYTHON_MAJOR_VER = 3 /\ e.seed = 1
                             /\ e.have_crypt}
    /\ stream = <<>>
    /\ self = NewSession
    /\ pos = 0
    /\ translator = NoTranslator
    /\ wire = <<>>
    /\ result = NoResult
    /\ pc = "idle"
    /\ locals \in {[v |-> <<y, 1, 1>>, n |-> 0] : y \in StartYears}
    /\ xsqlda = <<>>

NextDateStep ==
    \/ ConvertDate
    \/ NextDate

SpecDate == InitDate /\ [][NextDateStep]_vars

(***************************************************************************)
(* Properties of the session.                                              *)
(***************************************************************************)
\* the first opcode of the stream that is not op_dummy, -1 when there is none
FirstOpcode(s) ==
    LET Opcode(b) == IF b.ok THEN bytes_to_bint(b.data) ELSE -1
    IN  Opcode(SkipDummy(s, 0))

SrpAnswered ==
    /\ FirstOpcode(stream) \in {op_cond_accept, op_accept_data}
    /\ self.plugin_name = Srp

AcceptFinished == result.op = "_op_accept" /\ result.exc # "running"

SrpOrder == <<"send", "recv", "send", "set_translator", "recv">>

\* C1: once the server has answered a conditional accept with plugin Srp,
\* the socket calls of _op_accept are, in this order: send
\* op_cont_auth(hex(proof), plugin_name, plugin_list, ""), read one
\* op_response, send op_crypt("Arc4", "Symmetric"), install the translator
\* keyed by the SRP session key, read one op_response.  A call is made only
\* when every earlier one succeeded, both packets leave in the clear, nothing
\* is written between op_crypt and the installation, the last reply is read
\* through the translator, and an accept that returns has made all five.
C1_SrpOrder ==
    result.op = "_op_accept" =>
        /\ Len(wire) <= 5
        /\ \A i \in 1..Len(wire) : wire[i].ev = SrpOrder[i]
        /\ \A i \in 1..(Len(wire) - 1) : wire[i].ok
        /\ pc = "cont_auth" => Len(wire) = 0
        /\ pc = "auth_response" => Len(wire) = 1
        /\ pc = "crypt" => Len(wire) = 2
        /\ pc = "set_translator" => Len(wire) = 3
        /\ pc = "crypt_response" => Len(wire) = 4
        /\ Len(wire) >= 1 =>
            /\ SrpAnswered
            /\ wire[1].cipher = Absent
            /\ wire[1].data =
                   pack_int(op_cont_auth)
                   \o pack_string(bytes_to_hex(locals.client_proof))
                   \o pack_bytes(self.plugin_name)
                   \o pack_bytes(self.plugin_list) \o pack_bytes(<<>>)
        /\ Len(wire) >= 3 =>
            /\ wire[3].cipher = Absent
            /\ wire[3].data =
                   pack_int(op_crypt) \o pack_string(Arc4)
                   \o pack_string(Symmetric)
        /\ Len(wire) >= 4 =>
            /\ wire[4].cipher = Some(locals.auth_key)
            /\ translator.key = Some(locals.auth_key)
        /\ Len(wire) >= 5 => wire[5].cipher = Some(locals.auth_key)
        /\ (SrpAnswered /\ result.exc = "none") => Len(wire) = 5

\* an accept that went through the whole SRP exchange and returned
C1_Witness ==
    /\ AcceptFinished /\ result.exc = "none"
    /\ SrpAnswered
    /\ Len(wire) = 5 /\ wire[5].ok

\* the translator changes only in the set_translator step of _op_accept
TranslatorOnlyBySrp ==
    translator' # translator =>
        /\ pc = "set_translator"
        /\ translator.installs = 0
        /\ translator'.installs = 1

\* the op_cont_auth reply of this accept was read and was a success
ContAuthAccepted == Len(wire) >= 2 /\ wire[2].ev = "recv" /\ wire[2].ok

\* C2: the translator is installed at most once per session, by no
\* operation other than _op_accept, and when _op_accept has finished it has
\* installed it once if the op_cont_auth reply of an Srp conditional accept
\* was a success and not at all otherwise (a plain op_accept, another
\* plugin, a failed op_cont_auth reply).
C2_TranslatorOnce ==
    /\ [](/\ translator.installs <= 1
          /\ AcceptFinished =>
                translator.installs = IF ContAuthAccepted THEN 1 ELSE 0
          /\ (AcceptFinished /\ ~SrpAnswered) => translator.installs = 0)
    /\ [][TranslatorOnlyBySrp]_vars

\* an Srp accept that finished with the translator installed
C2_Witness ==
    /\ AcceptFinished /\ SrpAnswered
    /\ translator.installs = 1
    /\ translator.key = Some(locals.auth_key)

\* C2 as the specification states it: when _op_accept has finished, the
\* translator has been installed exactly once for an Srp conditional accept
\* and not at all otherwise.  An accept that stopped for want of the SRP keys
\* is left out, so that what refutes the statement is a refused proof.
C2_AsStated ==
    /\ translator.installs <= 1
    /\ (AcceptFinished /\ result.exc # "AttributeError") =>
          translator.installs = IF SrpAnswered THEN 1 ELSE 0

IssuerNames ==
    {"_op_drop_database", "_op_service_info", "_op_service_start",
     "_op_service_detach", "_op_info_database", "_op_transaction",
     "_op_allocate_statement", "_op_exec_immediate", "_op_detach",
     "_op_que_events", "_op_cancel_events", "_op_connect_request"}

\* C7: a call of an issuer whose packet carries db_handle, made while
\* db_handle is absent, raises OperationalError, makes no socket call and
\* leaves every session field, the translator and the stream position as
\* they were.
C7_InvalidDbHandle ==
    [][(self.db_handle = Absent /\ result'.op \in IssuerNames) =>
            /\ result'.exc = "OperationalError"
            /\ wire' = <<>>
            /\ self' = self
            /\ translator' = translator
            /\ pos' = pos]_vars

\* an issuer has been refused for want of a db_handle
C7_Witness ==
    /\ result.op \in IssuerNames
    /\ self.db_handle = Absent
    /\ result.exc = "OperationalError"
    /\ wire = <<>>

(***************************************************************************)
(* Properties of the readers.  A reader is called once, at the start of    *)
(* the stream.                                                             *)
(***************************************************************************)
\* the number of op_dummy words the stream starts with
RECURSIVE NumDummies(_)
NumDummies(s) ==
    IF Len(s) >= 4 /\ SubSeq(s, 1, 4) = bint_to_bytes(op_dummy, 4)
    THEN 1 + NumDummies(SubSeq(s, 5, Len(s)))
    ELSE 0

\* the stream without the op_dummy words it starts with
Stripped == SubSeq(stream, 4 * NumDummies(stream) + 1, Len(stream))

\* the 32-bit big-endian word that follows the first p bytes of s
WordAt(s, p) == bytes_to_bint(SubSeq(s, p + 1, p + 4))

\* the position that follows the first opcode that is not op_dummy
AfterOpcode == 4 * (NumDummies(stream) + 1)

\* _op_accept has read the accept and made no socket call of the SRP exchange
AcceptJustRead == result.op = "_op_accept" /\ Len(wire) = 0

\* the outcome of the reader is r
Outcome(r) == result.exc = r.exc /\ result.val = r.val

\* C3 as the specification states it: on every op_response the whole status
\* vector is decoded, the position ends just behind the isc_arg_end word,
\* and the outcome is OperationalError with the message, the gds codes and
\* the SQL code when the SQL code is nonzero or the message nonempty, and
\* (handle, object id, buffer) otherwise.
C3_AsStated ==
    (result.op = "_op_response" /\ stream \in ResponseStreams) =>
        LET buf_len == WordAt(stream, AfterOpcode + 12)
            buf == SubSeq(stream, AfterOpcode + 17, AfterOpcode + 16 + buf_len)
            sv == _parse_status_vector(
                      stream, AfterOpcode + 16 + ((buf_len + 3) \div 4) * 4)
        IN  /\ sv.exc = "none"
            /\ pos = Len(stream)
            /\ IF sv.sql_code # 0 \/ Truthy(sv.message)
               THEN /\ result.exc = "OperationalError"
                    /\ result.val =
                           ErrArgs(sv.message, sv.gds_codes, sv.sql_code)
               ELSE /\ result.exc = "none"
                    /\ result.val = [h |-> WordAt(stream, AfterOpcode),
                                     oid |-> SubSeq(stream, AfterOpcode + 5,
                                                    AfterOpcode + 12),
                                     buf |-> buf]

ResponseAccepting ==
    {"_op_response", "_op_fetch_response", "_op_sql_response", "_op_event"}

\* C4 as the specification states it: each of _op_response,
\* _op_fetch_response, _op_sql_response, _op_event and _op_accept, when the
\* first opcode that is not op_dummy is op_response, ends as
\* _parse_op_response does on what follows the opcode.
C4_AsStated ==
    ((result.op \in ResponseAccepting \/ AcceptJustRead)
     /\ FirstOpcode(stream) = op_response) =>
        LET Same(r) == Outcome(r) /\ pos = r.pos
        IN  Same(_parse_op_response(stream, AfterOpcode))

\* the opcodes a reader has a branch for, op_response apart
Expected(reader) ==
    CASE reader = "_op_fetch_response" -> {op_fetch_response}
      [] reader = "_op_sql_response" -> {op_sql_response}
      [] reader = "_op_event" -> {op_event, op_exit, op_disconnect}
      [] reader = "_wait_for_event" -> {op_event, op_exit, op_disconnect}
      [] reader = "_op_accept" ->
            {op_accept, op_cond_accept, op_accept_data, op_reject}
      [] OTHER -> {}

OpcodeReaders ==
    ResponseAccepting \cup {"_wait_for_event", "_op_connect_request"}

\* C5 as the specification states it: a reader whose first opcode that is
\* not op_dummy is neither one it expects nor op_response raises
\* InternalError.  The streams looked at hold 12 bytes or more behind that
\* opcode, so that no read of the reader comes short.
C5_AsStated ==
    ((result.op \in OpcodeReaders \/ AcceptJustRead)
     /\ FirstOpcode(stream) # -1
     /\ Len(stream) >= AfterOpcode + 12
     /\ FirstOpcode(stream) \notin Expected(result.op) \cup {op_response}) =>
        result.exc = "InternalError"

\* C6: a reader called on a stream that starts with k op_dummy words ends as
\* it does on the stream without them, k * 4 bytes further: the same value
\* or the same error, and for _op_accept the same session fields and the
\* same SRP proof.
C6_DummyTransparent ==
    LET Same(r) == Outcome(r) /\ pos = r.pos + 4 * NumDummies(stream)
        SameAccept(a) ==
            /\ self = a.me
            /\ pos = a.r.pos + 4 * NumDummies(stream)
            /\ IF a.cont
               THEN /\ result = Running
                    /\ locals = [client_proof |-> a.client_proof,
                                 auth_key |-> a.auth_key]
               ELSE Outcome(a.r)
    IN  /\ result.op = "_op_response" => Same(_op_response(Stripped, 0))
        /\ result.op = "_op_fetch_response" =>
               Same(_op_fetch_response(Stripped, 0, xsqlda))
        /\ result.op = "_op_sql_response" =>
               Same(_op_sql_response(Stripped, 0, xsqlda))
        /\ result.op = "_op_event" => Same(_op_event(Stripped, 0))
        /\ result.op = "_wait_for_event" => Same(_wait_for_event(Stripped, 0))
        /\ result.op = "_op_connect_request" =>
               Same(ConnectRequestReply(Stripped, 0))
        /\ AcceptJustRead =>
               SameAccept(AcceptRead(Stripped, 0, ConnectedSession))

\* rows have been fetched from a stream that starts with two op_dummy words
C6_Witness ==
    /\ result.op = "_op_fetch_response" /\ result.exc = "none"
    /\ NumDummies(stream) = 2
    /\ FirstOpcode(stream) = op_fetch_response
    /\ Len(result.val.rows) >= 1

\* the rows and the last status of a fetch response, as C8 describes them:
\* while the last count read is nonzero, one row and one 12-byte trailer
RECURSIVE FetchWalk(_, _, _, _, _)
FetchWalk(s, p, status, count, rows) ==
    IF count = 0 THEN [rows |-> rows, status |-> status, pos |-> p]
    ELSE LET r == ReadRow(s, p, xsqlda, 1, <<>>)
         IN  FetchWalk(s, r.pos + 12, WordAt(s, r.pos + 4),
                       WordAt(s, r.pos + 8), Append(rows, r.row))

FetchExample ==
    bint_to_bytes(op_fetch_response, 4) \o bint_to_bytes(0, 4)
    \o bint_to_bytes(1, 4)
    \o bint_to_bytes(3, 4) \o <<97, 98, 99, 0>> \o <<0, 0, 0, 0>>
    \o bint_to_bytes(op_fetch_response, 4) \o bint_to_bytes(100, 4)
    \o bint_to_bytes(0, 4)

\* C8: on a whole fetch response, after the op_fetch_response header (status,
\* count), _op_fetch_response reads a row
\* and a 12-byte trailer for as long as the count last read is nonzero and
\* returns the rows in the order of arrival; more_rows is true exactly when
\* the status last read (the header's when no row was read) is not 100.  The
\* header (0, 1), the row "abc" and the trailer (100, 0) give one row and
\* more_rows false.
C8_FetchLoop ==
    /\ (result.op = "_op_fetch_response"
        /\ stream \in FetchStreams(xsqlda)) =>
           LET Same(e) ==
                   /\ result.exc = "none"
                   /\ result.val.rows = e.rows
                   /\ result.val.more = (e.status # 100)
                   /\ pos = e.pos
           IN  Same(FetchWalk(stream, AfterOpcode + 8,
                              WordAt(stream, AfterOpcode),
                              WordAt(stream, AfterOpcode + 4), <<>>))
    /\ (result.op = "_op_fetch_response" /\ Stripped = FetchExample
        /\ xsqlda = <<[io_length |-> -1]>>) =>
           /\ result.exc = "none"
           /\ result.val =
                  [rows |-> << <<XValue(xsqlda[1], <<97, 98, 99>>)>> >>,
                   more |-> FALSE]

\* two rows have been fetched and the last trailer said there are no more
C8_Witness ==
    /\ result.op = "_op_fetch_response" /\ result.exc = "none"
    /\ FirstOpcode(stream) = op_fetch_response
    /\ Len(result.val.rows) = 2
    /\ ~result.val.more
    /\ WordAt(stream, AfterOpcode) = 0

\* a column as C9 describes it: a length word only when io_length < 0, the
\* value and its padding, the null indicator
ColumnAt(s, p, x) ==
    LET start == IF x.io_length < 0 THEN p + 4 ELSE p
        ln == IF x.io_length < 0 THEN WordAt(s, p) ELSE x.io_length
        indicator == start + ((ln + 3) \div 4) * 4
    IN  [col |-> IF SubSeq(s, indicator + 1, indicator + 4) = <<0, 0, 0, 0>>
                 THEN XValue(x, SubSeq(s, start + 1, start + ln))
                 ELSE None,
         pos |-> indicator + 4]

RECURSIVE RowAt(_, _, _, _)
RowAt(s, p, xs, r) ==
    IF Len(xs) = 0 THEN [row |-> r, pos |-> p]
    ELSE LET c == ColumnAt(s, p, xs[1])
         IN  RowAt(s, c.pos, Tail(xs), Append(r, c.col))

RECURSIVE RowsAt(_, _, _)
RowsAt(s, p, count) ==
    IF count = 0 THEN <<>>
    ELSE LET r == RowAt(s, p, xsqlda, <<>>)
         IN  <<r.row>> \o RowsAt(s, r.pos + 12, WordAt(s, r.pos + 8))

\* C9: on a whole response for the descriptors of the statement, each row
\* of _op_fetch_response and the row of _op_sql_response holds,
\* for each descriptor in order, x.value of the value bytes when the null
\* indicator is zero and null otherwise; a column takes a length word only
\* when io_length < 0, the value padded to 4 bytes, and the 4-byte
\* indicator; a row has one entry for each descriptor.
C9_Columns ==
    /\ (result.op = "_op_fetch_response"
        /\ stream \in FetchStreams(xsqlda)) =>
           /\ result.exc = "none"
           /\ result.val.rows =
                  RowsAt(stream, AfterOpcode + 8,
                         WordAt(stream, AfterOpcode + 4))
           /\ \A i \in 1..Len(result.val.rows) :
                  Len(result.val.rows[i]) = Len(xsqlda)
    /\ (result.op = "_op_sql_response"
        /\ stream \in SqlStreams(xsqlda)
        /\ WordAt(stream, AfterOpcode) # 0) =>
           LET Same(e) ==
                   /\ result.exc = "none"
                   /\ result.val = e.row
                   /\ Len(result.val) = Len(xsqlda)
                   /\ pos = e.pos
           IN  Same(RowAt(stream, AfterOpcode + 4, xsqlda, <<>>))

\* a row of two columns, the first of fixed length and null, the second of
\* variable length and present
C9_Witness ==
    /\ result.op = "_op_sql_response" /\ result.exc = "none"
    /\ Len(xsqlda) = 2
    /\ Len(result.val) = 2
    /\ result.val[1] = None
    /\ result.val[2] = XValue(xsqlda[2], <<97, 98, 99>>)

\* C10 as the specification states it: _op_event and _wait_for_event raise
\* DisconnectByPeer when the first opcode that is not op_dummy is op_exit or
\* op_disconnect.
C10_AsStated ==
    (result.op \in {"_op_event", "_wait_for_event"}
     /\ FirstOpcode(stream) \in {op_exit, op_disconnect}) =>
        result.exc = "DisconnectByPeer"

\* the counter of an event record: 4 bytes, the low byte first when ~big
Counter(c, big) ==
    IF big THEN bytes_to_bint(c)
    ELSE c[1] + 256 * c[2] + 65536 * c[3]
         + 16777216 * (IF c[4] >= 128 THEN c[4] - 256 ELSE c[4])

\* {name: counter} of the [name_len, name, counter] records of payload b
\* from index i on
RECURSIVE NamesAt(_, _, _)
NamesAt(b, i, big) ==
    IF i >= Len(b) THEN <<>>
    ELSE LET ln == b[i + 1]
             name == SubSeq(b, i + 2, i + 1 + ln)
             n == Counter(SubSeq(b, i + 2 + ln, i + 5 + ln), big)
             Put(rest) ==
                 [x \in (DOMAIN rest) \cup {name} |->
                     IF x \in DOMAIN rest THEN rest[x] ELSE n]
         IN  Put(NamesAt(b, i + ln + 5, big))

\* what C11 says of the first event frame of the stream, the counters read
\* in the byte order given
EventAt(big) ==
    LET ln == WordAt(stream, AfterOpcode + 4)
        b == SubSeq(stream, AfterOpcode + 9, AfterOpcode + 8 + ln)
        after == AfterOpcode + 8 + ((ln + 3) \div 4) * 4 + 8
    IN  [val |-> [event_id |-> WordAt(stream, after),
                  event_names |-> NamesAt(b, 1, big)],
         pos |-> after + 4]

WholeEventStreams == Framed(WholeEventFrames)
TestName == <<84, 69, 83, 84>>
EventExample(counter) ==
    bint_to_bytes(op_dummy, 4) \o bint_to_bytes(op_event, 4)
    \o bint_to_bytes(1, 4) \o bint_to_bytes(10, 4)
    \o <<1, 4>> \o TestName \o counter \o <<0, 0>>
    \o <<0, 0, 0, 0, 0, 0, 0, 0>> \o bint_to_bytes(42, 4)

WaitedWhole ==
    result.op = "_wait_for_event" /\ stream \in WholeEventStreams

ReplyHandle(k) == WordAt(stream, 24 * (k - 1) + 4)
ReplyOid(k) == SubSeq(stream, 24 * (k - 1) + 9, 24 * (k - 1) + 16)

Sent(e, op) == e.ev = "send" /\ WordAt(e.data, 0) = op
Received(e) == e.ev = "recv" /\ e.ok

\* _create_blob has just returned to params_to_blr
JustClosed ==
    /\ pc = "params"
    /\ locals.k > 1
    /\ Spills(locals.params[locals.k - 1])
    /\ Len(wire) > 0
    /\ wire[Len(wire)].ev = "recv"

\* the payloads of the put_segment requests w[3], w[5], ..., in order
RECURSIVE Payloads(_, _)
Payloads(w, n) ==
    IF n = 0 THEN <<>>
    ELSE Payloads(w, n - 1)
         \o SubSeq(w[2 * n + 1].data, 17, Len(w[2 * n + 1].data))

\* C12: when _create_blob has returned for the byte string b, its socket
\* calls were, each request followed by one successful response read:
\* create_blob2, ceil(len(b) / BLOB_SEGMENT_SIZE) put_segment requests on the
\* handle of the create response, of at most BLOB_SEGMENT_SIZE bytes each,
\* which concatenate to b, and close_blob on that handle; the value returned
\* is the object id of the create response.  While _create_blob runs,
\* requests and response reads alternate.
C12_CreateBlob ==
    /\ JustClosed =>
           LET b == locals.params[locals.k - 1].b
               n == (Len(b) + BLOB_SEGMENT_SIZE - 1) \div BLOB_SEGMENT_SIZE
               first == Len(wire) - 2 * n - 3
               w == SubSeq(wire, first, Len(wire))
               reply == ((first - 1) \div 2) + 1
           IN  /\ first >= 1
               /\ \A i \in 1..(n + 2) : Received(w[2 * i])
               /\ Sent(w[1], op_create_blob2)
               /\ \A i \in 1..n :
                      /\ Sent(w[2 * i + 1], op_put_segment)
                      /\ WordAt(w[2 * i + 1].data, 4) = ReplyHandle(reply)
                      /\ Len(w[2 * i + 1].data) - 16 \in 1..BLOB_SEGMENT_SIZE
               /\ Payloads(w, n) = b
               /\ Sent(w[2 * n + 3], op_close_blob)
               /\ WordAt(w[2 * n + 3].data, 4) = ReplyHandle(reply)
               /\ SubSeq(locals.values, Len(locals.values) - 11,
                         Len(locals.values) - 4) = ReplyOid(reply)
    /\ pc \in {"create_blob2", "create_response", "put_segment",
               "segment_response", "close_response"} =>
           \A i \in 1..Len(wire) :
               wire[i].ev = (IF i % 2 = 1 THEN "send" ELSE "recv")

\* the second of two byte strings has been stored, in two segments
C12_Witness ==
    /\ JustClosed
    /\ locals.k = 3
    /\ Spills(locals.params[1])
    /\ Len(wire) = 16

\* C13 as the specification states it: once a create_blob2 request has been
\* answered with success, _create_blob does not exit before a close_blob
\* request for that handle is sent; looked at where _create_blob exits on a
\* response that carries a failing status vector.
C13_AsStated ==
    (pc = "closed"
     /\ result.op \in {"_op_execute", "_op_execute2", "params_to_blr"}
     /\ result.exc = "OperationalError" /\ result.val.gds_codes # {}) =>
        \A c \in 1..Len(wire) :
            (Sent(wire[c], op_create_blob2) /\ c < Len(wire)
             /\ Received(wire[c + 1])) =>
                \E i \in (c + 2)..Len(wire) : Sent(wire[i], op_close_blob)

\* C14 as the specification states it: every packet an issuer writes to the
\* socket has a length that is a multiple of 4.
C14_AsStated ==
    \A i \in 1..Len(wire) :
        wire[i].ev = "send" => Len(wire[i].data) % 4 = 0

\* recv_channel has ended
Received4 == result.op = "recv_channel"
Padding ==
    IF locals.word_alignment /\ (locals.nbytes % 4) # 0
    THEN 4 - (locals.nbytes % 4) ELSE 0

\* C15: on a stream that holds the bytes asked for and their padding, when
\* no timeout expires, recv_channel(n, word_alignment) returns the next n
\* bytes and advances by n bytes when word_alignment is false or n is a
\* multiple of 4 and by n + (4 - n mod 4) bytes otherwise, however recv
\* splits the bytes; the outcome is the one of a single read.
C15_ExactRead ==
    (Received4 /\ locals.left # "timeout"
     /\ Len(stream) >= locals.nbytes + Padding) =>
        /\ result.exc = "none"
        /\ result.val = SubSeq(stream, 1, locals.nbytes)
        /\ pos = locals.nbytes + Padding
        /\ LET Same(one) ==
                   one.ok /\ one.data = result.val /\ one.pos = pos
           IN  Same(recv_channel(stream, 0, locals.nbytes,
                                 locals.word_alignment))

\* five bytes and three bytes of padding have been read
C15_Witness ==
    /\ Received4 /\ result.exc = "none"
    /\ locals.nbytes = 5 /\ locals.word_alignment
    /\ pos = 8

\* C16: recv_channel raises OperationalError when the peer closes, or a
\* timeout expires, before n bytes have arrived, and what it returns is
\* never shorter than n bytes.
C16_ShortRead ==
    /\ (Received4 /\ locals.left # "" /\ Len(locals.r) < locals.nbytes) =>
           /\ result.exc = "OperationalError"
           /\ result.val = CanNotRecv
    /\ (Received4 /\ result.exc = "none") =>
           Len(result.val) = locals.nbytes

\* a timeout has expired after three of five bytes
C16_Witness ==
    /\ Received4 /\ result.exc = "OperationalError"
    /\ locals.left = "timeout"
    /\ Len(locals.r) = 3 /\ locals.nbytes = 5

\* the status vector as C17 describes it, read from position p of s: the
\* nonzero gds codes, the templates of the groups with each argument put
\* in the next placeholder of the template of its own group, and the
\* number that follows gds code 335544436
RECURSIVE GroupsAt(_, _, _)
GroupsAt(s, p, st) ==
    LET kind == WordAt(s, p)
        Put(piece) ==
            [i \in 1..Len(st.cur) |->
                IF st.cur[i] = Ph(st.counter + 1) THEN piece ELSE st.cur[i]]
        ln == WordAt(s, p + 4)
    IN  CASE kind = isc_arg_end ->
                [ok |-> st.ok, gds_codes |-> st.gds_codes,
                 sql_code |-> st.sql_code, message |-> st.done \o st.cur,
                 pos |-> p + 4]
          [] kind = isc_arg_gds /\ WordAt(s, p + 4) # 0 ->
                GroupsAt(s, p + 8,
                         [st EXCEPT !.gds_codes = @ \cup {WordAt(s, p + 4)},
                                    !.done = @ \o st.cur,
                                    !.cur = messages(WordAt(s, p + 4)),
                                    !.counter = 0,
                                    !.gds = WordAt(s, p + 4)])
          [] kind = isc_arg_gds /\ WordAt(s, p + 4) = 0 ->
                GroupsAt(s, p + 8, [st EXCEPT !.gds = 0])
          [] kind = isc_arg_number ->
                GroupsAt(s, p + 8,
                         [st EXCEPT !.cur = Put(StrNum(WordAt(s, p + 4))),
                                    !.counter = @ + 1,
                                    !.sql_code = IF st.gds = 335544436
                                                 THEN WordAt(s, p + 4)
                                                 ELSE @])
          [] kind \in {isc_arg_string, isc_arg_interpreted,
                       isc_arg_sql_state} ->
                GroupsAt(s, p + 8 + ((ln + 3) \div 4) * 4,
                         [st EXCEPT !.cur = Put(StrBytes(SubSeq(s, p + 9,
                                                                p + 8 + ln))),
                                    !.counter = @ + 1])
          [] OTHER ->
                [ok |-> FALSE, gds_codes |-> {}, sql_code |-> 0,
                 message |-> <<>>, pos |-> p]

\* where the status vector of the op_response of the stream starts
VectorStart ==
    AfterOpcode + 16 + ((WordAt(stream, AfterOpcode + 12) + 3) \div 4) * 4

VectorAsClaimed ==
    GroupsAt(stream, VectorStart,
             [ok |-> \/ WordAt(stream, VectorStart) = isc_arg_end
                     \/ /\ WordAt(stream, VectorStart) = isc_arg_gds
                        /\ WordAt(stream, VectorStart + 4) # 0,
              gds_codes |-> {}, sql_code |-> 0, done |-> <<>>,
              cur |-> <<>>, counter |-> 0, gds |-> 0])

\* C17 as the specification states it: on a status vector made of groups
\* that each start with isc_arg_gds, the first of them with a nonzero gds
\* code, _parse_status_vector yields the nonzero
\* gds codes, the message with each argument in the next placeholder of the
\* template of its group, and as sql_code the number that follows gds code
\* 335544436 or 0; seen through _op_response, which raises
\* OperationalError(message, gds_codes, sql_code) when the SQL code or the
\* message is not empty.  [isc_arg_gds 335544344, isc_arg_string "users",
\* isc_arg_end] gives {335544344}, 0 and the template with @1 = "users".
C17_AsStated ==
    /\ (result.op = "_op_response" /\ stream \in ResponseStreams
        /\ VectorAsClaimed.ok) =>
           LET Same(e) ==
                   IF e.sql_code # 0 \/ Truthy(e.message)
                   THEN /\ result.exc = "OperationalError"
                        /\ result.val = ErrArgs(e.message, e.gds_codes,
                                                e.sql_code)
                   ELSE result.exc = "none"
           IN  Same(VectorAsClaimed)
    /\ (result.op = "_op_response" /\ stream \in ResponseStreams
        /\ SubSeq(stream, VectorStart + 1, Len(stream))
               = UsersVector \o Word(isc_arg_end)) =>
           /\ result.exc = "OperationalError"
           /\ result.val =
                  ErrArgs(<<Lit(335544344),
                            StrBytes(<<117, 115, 101, 114, 115>>),
                            Lit(335544344), Ph(2)>>, {335544344}, 0)

\* the items [type, value] of a parameter block: [type, length, value] from
\* index i of d on
RECURSIVE DpbItems(_, _)
DpbItems(d, i) ==
    IF i > Len(d) THEN <<>>
    ELSE <<[type |-> d[i], value |-> SubSeq(d, i + 2, i + 1 + d[i + 1])]>>
         \o DpbItems(d, i + 2 + d[i + 1])

\* the items of the DPB of the attach or create packet just sent
SentDpb ==
    LET data == wire[1].data
        dpb == 12 + ((WordAt(data, 8) + 3) \div 4) * 4
    IN  DpbItems(SubSeq(data, dpb + 6, dpb + 4 + WordAt(data, dpb)), 1)

Attaching ==
    result.op \in {"_op_attach", "_op_create"} /\ result.exc = "none"

Items(types) == {i \in 1..Len(SentDpb) : SentDpb[i].type \in types}

\* the DPB holds one password item, as C18 describes it
OnePassword ==
    IF self.accept_version[1] > 10 /\ env.have_crypt
    THEN \E i \in 1..Len(SentDpb) :
            /\ Items({isc_dpb_password, isc_dpb_password_enc}) = {i}
            /\ SentDpb[i].type = isc_dpb_password_enc
            /\ SentDpb[i].value = get_crypt(self.password)[1]
    ELSE \E i \in 1..Len(SentDpb) :
            /\ Items({isc_dpb_password, isc_dpb_password_enc}) = {i}
            /\ SentDpb[i].type = isc_dpb_password
            /\ SentDpb[i].value = self.password

\* C18, amended: for accept_version 10, 11 and 12 the DPB built by
\* _op_attach and _op_create holds exactly one password item,
\* isc_dpb_password_enc when accept_version > 10 and a password hash is
\* available and the plaintext isc_dpb_password otherwise; for
\* accept_version 13 it holds neither.
C18_DpbPassword ==
    Attaching =>
        IF self.accept_version[1] < 13 THEN OnePassword
        ELSE Items({isc_dpb_password, isc_dpb_password_enc}) = {}

\* a database has been created under accept_version 12 with the hash
C18_Witness ==
    /\ Attaching /\ result.op = "_op_create"
    /\ self.accept_version = Some(12)
    /\ \E i \in 1..Len(SentDpb) : SentDpb[i].type = isc_dpb_password_enc

\* C18 as the specification states it: for every accept_version of 10 to 13
\* the DPB holds exactly one password item.
C18_AsStated ==
    Attaching => OnePassword

HoldsKeys ==
    self.client_public_key # Absent \/ self.client_private_key # Absent

\* C19 as the specification states it: the session holds client_public_key
\* and client_private_key only from the connect request built for plugin Srp
\* until _op_accept has finished, by success or by error; before the connect
\* and once _op_accept has finished it holds neither.
C19_AsStated ==
    /\ pc = "new" => ~HoldsKeys
    /\ AcceptFinished => ~HoldsKeys

\* the length of the tag group that starts with the byte tag, and the number
\* of value bytes it announces (lo, hi: the two bytes after the tag)
TagLength(tag) == IF tag = 14 THEN 3 ELSE IF tag \in {9, 8, 16} THEN 2 ELSE 1
ValueLength(tag, lo, hi) ==
    IF tag = 14 THEN ((lo + 256 * hi + 3) \div 4) * 4
    ELSE IF tag \in {9, 16, 35} THEN 8 ELSE 4

\* the tag group and the value bytes are those of the encoding table for p
AsTable(p, group, v) ==
    CASE p.t = "NoneType" -> group = <<14, 0, 0>> /\ v = <<>>
      [] p.t \in {"str", "bytes"} /\ Len(p.b) <= MAX_CHAR_LENGTH ->
            /\ group = <<14, Len(p.b), 0>>
            /\ SubSeq(v, 1, Len(p.b)) = p.b
            /\ \A i \in (Len(p.b) + 1)..Len(v) : v[i] = 0
      [] p.t \in {"str", "bytes"} /\ Len(p.b) > MAX_CHAR_LENGTH ->
            /\ group = <<9, 0>>
            /\ \E j \in 1..MaxReplies : v = ReplyOid(j)
      [] p.t = "int" -> group = <<8, 0>> /\ bytes_to_bint(v) = p.n
      [] p.t = "float" /\ p.special = "F" /\ p.sign = 0 ->
            group = <<10>> /\ v = <<127, 128, 0, 0>>
      [] p.t \in {"float", "Decimal"} /\ p.special = "" ->
            /\ group = <<16, (p.exponent + 256) % 256>>
            /\ bytes_to_bint(v) =
                   (IF p.sign # 0 THEN -1 ELSE 1) * DigitsValue(p.digits)
      [] p.t = "date" -> group = <<12>>
      [] p.t = "time" -> group = <<13>>
      [] p.t = "datetime" -> group = <<35>>
      [] p.t = "bool" ->
            group = <<23>> /\ v = <<IF p.n # 0 THEN 1 ELSE 0, 0, 0, 0>>
      [] p.t = "list" -> group[1] = 14 /\ SubSeq(v, 1, Len(p.b)) = p.b
      [] OTHER -> FALSE

\* blr from index bi on and values from index vi on hold the parameters
\* params[k], params[k + 1], ... as C20 describes them, and nothing else
\* but the end [255, 76] of blr
RECURSIVE GroupsFrom(_, _, _, _, _, _)
GroupsFrom(params, k, blr, bi, values, vi) ==
    IF k > Len(params)
    THEN SubSeq(blr, bi, Len(blr)) = <<255, 76>> /\ vi = Len(values) + 1
    ELSE /\ bi + 2 <= Len(blr)
         /\ LET tag == blr[bi]
                tl == TagLength(tag)
                vl == ValueLength(tag, blr[bi + 1], blr[bi + 2])
            IN  /\ bi + tl + 1 <= Len(blr)
                /\ vi + vl + 3 <= Len(values)
                /\ AsTable(params[k], SubSeq(blr, bi, bi + tl - 1),
                           SubSeq(values, vi, vi + vl - 1))
                /\ SubSeq(blr, bi + tl, bi + tl + 1) = <<7, 0>>
                /\ SubSeq(values, vi + vl, vi + vl + 3) =
                       (IF params[k].t = "NoneType" THEN FF4 ELSE Zeros(4))
                /\ GroupsFrom(params, k + 1, blr, bi + tl + 2,
                              values, vi + vl + 4)

BlrAsClaimed(params, blr, values) ==
    /\ SubSeq(blr, 1, 6) = <<5, 2, 4, 0, (2 * Len(params)) % 256,
                             (2 * Len(params)) \div 256>>
    /\ GroupsFrom(params, 1, blr, 7, values, 1)
    /\ Len(values) % 4 = 0
    /\ params = ExampleParams =>
           values = <<0, 0, 0, 42, 0, 0, 0, 0, 104, 105, 0, 0, 0, 0, 0, 0,
                      255, 255, 255, 255>>
                    \o <<0, 0, 229, 225, 0, 0, 0, 0>>

\* C20 as the specification states it: for any list of parameters,
\* params_to_blr returns (a failure of the server while a BLOB is stored
\* aside) a descriptor [5, 2, 4, 0, 2n mod 256, 2n div 256], the tag group
\* of each parameter followed by [7, 0], [255, 76], and a value buffer of
\* the value bytes of each parameter followed by 00000000 when it is present
\* and FFFFFFFF when it is null, of a length that is a multiple of 4.
C20_AsStated ==
    (result.op = "params_to_blr" /\ result.exc # "OperationalError") =>
        /\ result.exc = "none"
        /\ BlrAsClaimed(locals.params, result.val.blr, result.val.values)

\* pack_cnct_param has ended
Packed == result.op = "pack_cnct_param"

\* the number of chunks of a payload of n bytes
NumChunks(n) == IF n = 0 THEN 1 ELSE (n + CnctChunk - 1) \div CnctChunk

\* b is v in chunks: chunk j starts at index 257 j + 1 of b
AsChunks(k, v, b) ==
    LET n == NumChunks(Len(v))
        last == Len(v) - CnctChunk * (n - 1)
    IN  /\ Len(b) = (CnctChunk + 3) * (n - 1) + 3 + last
        /\ \A j \in 0..(n - 2) :
               LET at == (CnctChunk + 3) * j
               IN  /\ SubSeq(b, at + 1, at + 3) = <<k, 255, j>>
                   /\ SubSeq(b, at + 4, at + 3 + CnctChunk) =
                          SubSeq(v, CnctChunk * j + 1, CnctChunk * (j + 1))
        /\ LET at == (CnctChunk + 3) * (n - 1)
           IN  /\ last <= CnctChunk
               /\ SubSeq(b, at + 1, at + 3) = <<k, last + 1, n - 1>>
               /\ SubSeq(b, at + 4, Len(b)) =
                      SubSeq(v, CnctChunk * (n - 1) + 1, Len(v))

PackedAsClaimed ==
    /\ result.exc = "none"
    /\ IF locals.k = CNCT_specific_data
       THEN AsChunks(locals.k, locals.param, result.val.b)
       ELSE result.val.b = <<locals.k, Len(locals.param)>> \o locals.param
    /\ Len(locals.param) <= CnctChunk * MaxTurns + 2 =>
           result.val.b = pack_cnct_param(locals.k, locals.param)

\* C21, amended: a CNCT_specific_data payload of at most 256 * 254 bytes is
\* emitted as chunks with indices 0, 1, 2, ... in order, every chunk but the
\* last [key, 255, index] and 254 payload bytes, the last [key, len + 1,
\* index] and its len <= 254 bytes, which concatenate to the payload; the
\* loop terminates; every other parameter of at most 255 bytes is emitted
\* as one [key, len, value].
C21_Chunks ==
    /\ [](Packed =>
            (Len(locals.param) <= (IF locals.k = CNCT_specific_data
                                   THEN 256 * CnctChunk ELSE 255)
                => PackedAsClaimed))
    /\ (pc = "specific_data") ~> Packed

\* a payload of three chunks, the last one of one byte, has been packed
C21_Witness ==
    /\ Packed /\ result.exc = "none"
    /\ locals.k = CNCT_specific_data
    /\ Len(locals.param) = 2 * CnctChunk + 1
    /\ locals.i = 2

\* C21 as the specification states it: the same for a payload of any length.
C21_AsStated ==
    /\ [](Packed => PackedAsClaimed)
    /\ (pc = "specific_data") ~> Packed

\* _op_connect has sent the connect packet
Connected == result.op = "_op_connect" /\ result.exc = "none"

\* the j-th of the four protocol descriptors that end the connect packet
Descriptor(j) ==
    LET data == wire[1].data
        at == Len(data) - 20 * (5 - j)
    IN  [w \in 1..5 |-> WordAt(data, at + 4 * (w - 1))]

\* the protocol count of the connect packet: the word after the filename
ProtocolCount ==
    LET data == wire[1].data
    IN  WordAt(data, 20 + ((WordAt(data, 16) + 3) \div 4) * 4)

\* C22, amended: the connect packet announces four protocols and ends with
\* four descriptors of five words; the one of version 10 is (10, 1, 0, 5, 2)
\* and those of versions 11, 12 and 13 are (0xFFFF8000 + version, 1, 0, 4,
\* weight) with the weights 4, 6 and 8.
C22_Descriptors ==
    Connected =>
        /\ ProtocolCount = 4
        /\ Descriptor(1) = <<10, 1, 0, 5, 2>>
        /\ \A j \in 2..4 :
               Descriptor(j) = <<9 + j - 32768, 1, 0, 4, 2 * j>>

\* the connect packet of a session that offers Srp has been sent
C22_Witness ==
    /\ Connected
    /\ self.plugin_name = Srp
    /\ Len(wire[1].data) > 80

\* C22 as the specification states it: each of the four descriptors is
\* (version, 1, 0, 5, 2), the version word holding 10, 11, 12 or 13 (with or
\* without the flag 0x8000 of the versions above 10, sign-extended).
C22_AsStated ==
    Connected =>
        \A j \in 1..4 :
            \/ Descriptor(j) = <<9 + j, 1, 0, 5, 2>>
            \/ Descriptor(j) = <<9 + j - 32768, 1, 0, 5, 2>>

\* the date of the offset j, by the Gregorian calendar: the days since
\* 0000-03-01, the 400 years they fall in, the year of those, the day of
\* that year and its month counted from March
DateOf(j) ==
    LET z == j + 678881
        era == z \div 146097
        doe == z % 146097
        yoe == (doe - (doe \div 1460) + (doe \div 36524)
                - (doe \div 146096)) \div 365
        doy == doe - (365 * yoe + (yoe \div 4) - (yoe \div 100))
        mp == (5 * doy + 2) \div 153
        d == doy - ((153 * mp + 2) \div 5) + 1
        m == IF mp < 10 THEN mp + 3 ELSE mp - 9
    IN  <<yoe + era * 400 + (IF m <= 2 THEN 1 ELSE 0), m, d>>

Converted == result.op = "convert_date"
Offset == bytes_to_bint(result.val.b)

\* C23: for a date of [0001-01-01, 9999-12-31] the offset convert_date
\* returns decodes back to the date, the offset of the next calendar day is
\* one more (so distinct dates have distinct offsets), and 1858-11-17 has
\* offset 0.
C23_DateRoundTrip ==
    Converted =>
        /\ Len(result.val.b) = 4
        /\ DateOf(Offset) = locals.v
        /\ locals.v # <<9999, 12, 31>> =>
               bytes_to_bint(convert_date(NextDay(locals.v))) = Offset + 1
        /\ locals.v = <<1858, 11, 17>> => Offset = 0
        /\ locals.v = <<1, 1, 1>> => Offset = -678575
        /\ locals.v = <<9999, 12, 31>> => Offset = 2973483

\* the 29th of February 2000 has been converted
C23_Witness ==
    /\ Converted
    /\ locals.v = <<2000, 2, 29>>
    /\ Offset = 51603

\* wire[i] is the execute packet
ExecuteAt(i) == Sent(wire[i], op_execute) \/ Sent(wire[i], op_execute2)

BlobRequest(e) ==
    Sent(e, op_create_blob2) \/ Sent(e, op_put_segment)
    \/ Sent(e, op_close_blob)

NumSent(op, i) == Cardinality({j \in 1..(i - 1) : Sent(wire[j], op)})

\* C24: when the execute packet of _op_execute or _op_execute2 is written,
\* the socket calls made before it are the whole BLOB cycles of the
\* parameters longer than MAX_CHAR_LENGTH, every request followed by its
\* successful response, one create_blob2 and one close_blob for each such
\* parameter, the last one closed; while a BLOB is being stored no execute
\* packet has been written, and after a BLOB response that failed the
\* operation has ended with the error and no execute packet is written.
C24_SpillBeforeExecute ==
    /\ \A i \in 1..Len(wire) :
           ExecuteAt(i) =>
               LET spilled ==
                       IF "params" \in DOMAIN locals
                       THEN Cardinality({k \in 1..Len(locals.params) :
                                            Spills(locals.params[k])})
                       ELSE 0
               IN  /\ \A j \in 1..(i - 1) :
                          IF j % 2 = 1 THEN BlobRequest(wire[j])
                          ELSE Received(wire[j])
                   /\ i % 2 = 1
                   /\ i > 1 => Sent(wire[i - 2], op_close_blob)
                   /\ NumSent(op_create_blob2, i) = spilled
                   /\ NumSent(op_close_blob, i) = spilled
                   /\ NumSent(op_put_segment, i) >= spilled
    /\ pc \in {"create_blob2", "create_response", "put_segment",
               "segment_response", "close_response"} =>
           \A i \in 1..Len(wire) : ~ExecuteAt(i)
    /\ (\E j \in 1..Len(wire) : wire[j].ev = "recv" /\ ~wire[j].ok) =>
           /\ pc = "closed"
           /\ result.exc = "OperationalError"
           /\ \A i \in 1..Len(wire) : ~ExecuteAt(i)

\* _op_execute2 has sent its packets after storing two BLOBs
C24_Witness ==
    /\ result.op = "_op_execute2" /\ result.exc = "none"
    /\ Len(wire) = 18
    /\ ExecuteAt(17)
    /\ NumSent(op_close_blob, 17) = 2

\* the items of the uid block of the connect packet data
UidItems(data) ==
    LET at == 24 + ((WordAt(data, 16) + 3) \div 4) * 4
    IN  DpbItems(SubSeq(data, at + 5, at + 4 + WordAt(data, at)), 1)

\* the packets a and b differ in the value of CNCT_client_crypt, which is
\* int_to_bytes of the flag, and in nothing else
DifferInClientCrypt(a, b, flag) ==
    LET ia == UidItems(a)
        ib == UidItems(b)
        at == {i \in 1..Len(ia) : ia[i].type = CNCT_client_crypt}
    IN  /\ Len(a) = Len(b) /\ Len(ia) = Len(ib)
        /\ Cardinality(at) = 1
        /\ \A i \in 1..Len(ia) :
               IF i \in at
               THEN /\ ib[i].type = CNCT_client_crypt
                    /\ ia[i].value = <<IF flag THEN 1 ELSE 0, 0, 0, 0>>
                    /\ ib[i].value = <<IF flag THEN 0 ELSE 1, 0, 0, 0>>
               ELSE ia[i] = ib[i]
        /\ Cardinality({i \in 1..Len(a) : a[i] # b[i]}) = 1

\* C25: the wire_crypt option of _op_connect decides the value of
\* CNCT_client_crypt in the uid block and nothing else of the connect
\* packet; and whenever _op_accept has finished after a successful reply to
\* op_cont_auth (conditional accept, plugin Srp), it has sent op_crypt and
\* installed the Arc4 translator, with wire_crypt true or false.
C25_CryptRegardless ==
    /\ Connected =>
           \E pl \in PluginLists :
               /\ wire[1].data = ConnectPacket(pl, env.wire_crypt)
               /\ IF Len(pl) = 0
                  THEN ConnectPacket(pl, ~env.wire_crypt) = wire[1].data
                  ELSE DifferInClientCrypt(wire[1].data,
                                           ConnectPacket(pl, ~env.wire_crypt),
                                           env.wire_crypt)
    /\ (AcceptFinished /\ ContAuthAccepted) =>
           /\ Len(wire) = 5
           /\ Sent(wire[3], op_crypt)
           /\ wire[4].ev = "set_translator"
           /\ translator.installs = 1
           /\ translator.key = Some(locals.auth_key)

\* a session that asked for no wire encryption ends up encrypted
C25_Witness ==
    /\ ~env.wire_crypt
    /\ AcceptFinished /\ result.exc = "none"
    /\ SrpAnswered /\ ContAuthAccepted
    /\ translator.key # Absent

\* the positions of the trailers of a whole fetch response: one behind each
\* row, for as long as the count last read is nonzero
RECURSIVE TrailersAt(_, _, _)
TrailersAt(s, p, count) ==
    IF count = 0 THEN {}
    ELSE LET r == ReadRow(s, p, xsqlda, 1, <<>>)
         IN  {r.pos} \cup TrailersAt(s, r.pos + 12, WordAt(s, r.pos + 8))

\* s with the opcode word op at the positions at
WithOpcode(s, at, op) ==
    [i \in 1..Len(s) |->
        IF \E t \in at : i \in (t + 1)..(t + 4)
        THEN bint_to_bytes(op, 4)[((i - 1) % 4) + 1] ELSE s[i]]

TrailerOpcodes == {0, op_response, op_dummy, op_fetch_response, op_exit}

\* C26: on a whole fetch response, _op_fetch_response ends as it does on
\* every stream that differs from it in the opcode words of row trailers
\* only (op_dummy, op_response, any other): the same rows, the same
\* more_rows flag, the same position; and it has read one row for each
\* nonzero count, the header's and the trailers', whatever its value.
C26_TrailerOpcodeUnread ==
    (result.op = "_op_fetch_response" /\ stream \in FetchStreams(xsqlda)) =>
        LET trailers == TrailersAt(stream, AfterOpcode + 8,
                                   WordAt(stream, AfterOpcode + 4))
        IN  /\ result.exc = "none"
            /\ Len(result.val.rows) = Cardinality(trailers)
            /\ \A at \in SUBSET trailers, op \in TrailerOpcodes :
                   LET other == _op_fetch_response(
                                    WithOpcode(stream, at, op), 0, xsqlda)
                   IN  Outcome(other) /\ pos = other.pos

\* two rows have been fetched, the trailer of the first with count 2 and the
\* opcode op_dummy
C26_Witness ==
    /\ result.op = "_op_fetch_response" /\ result.exc = "none"
    /\ stream \in FetchStreams(xsqlda)
    /\ Len(result.val.rows) = 2
    /\ LET first == ReadRow(stream, AfterOpcode + 8, xsqlda, 1, <<>>).pos
       IN  /\ WordAt(stream, first) = op_dummy
           /\ WordAt(stream, first + 8) = 2

\* the first item of the status vector at p that is a number or a string
\* (isc_arg_string, isc_arg_interpreted, isc_arg_sql_state) with no
\* isc_arg_gds item of a nonzero code before it: the position behind the
\* item, or -1 when the vector has no such item (seen: such a gds item came)
RECURSIVE OrphanEnd(_, _, _)
OrphanEnd(s, p, seen) ==
    LET kind == WordAt(s, p)
        behind == IF kind = isc_arg_number THEN p + 8
                  ELSE p + 8 + ((WordAt(s, p + 4) + 3) \div 4) * 4
    IN  IF kind = isc_arg_end THEN -1
        ELSE IF kind = isc_arg_gds
        THEN OrphanEnd(s, p + 8, seen \/ WordAt(s, p + 4) # 0)
        ELSE IF kind \in {isc_arg_number, isc_arg_string,
                          isc_arg_interpreted, isc_arg_sql_state}
        THEN (IF seen THEN OrphanEnd(s, behind, seen) ELSE behind)
        ELSE OrphanEnd(s, p + 4, seen)

\* C27: on a whole op_response, _parse_status_vector (seen through
\* _op_response) returns or raises OperationalError exactly when every
\* number and string item of the vector has an isc_arg_gds item with a
\* nonzero code before it, and then the whole vector has been read; a
\* number or string item that comes first, or after zero gds codes only,
\* ends the parser with an error that is neither OperationalError nor
\* InternalError, right behind that item, the rest of the vector unread.
C27_UnboundArgument ==
    (result.op = "_op_response" /\ stream \in ResponseStreams) =>
        LET orphan == OrphanEnd(stream, VectorStart, FALSE)
        IN  IF orphan = -1
            THEN /\ result.exc \in {"none", "OperationalError"}
                 /\ pos = Len(stream)
            ELSE /\ result.exc = "UnboundLocalError"
                 /\ pos = orphan
                 /\ pos < Len(stream)

\* a number item after a zero gds code has ended the parser
C27_Witness ==
    /\ result.op = "_op_response" /\ stream \in ResponseStreams
    /\ result.exc = "UnboundLocalError"
    /\ WordAt(stream, VectorStart) = isc_arg_gds
    /\ WordAt(stream, VectorStart + 4) = 0
    /\ WordAt(stream, VectorStart + 8) = isc_arg_number
    /\ pos = VectorStart + 16

\* the loop of recv_channel was left by a break after the nbytes bytes
\* asked for had arrived, with padding still missing
PaddingCutShort ==
    /\ Received4
    /\ locals.left \in {"closed", "timeout"}
    /\ Len(locals.r) >= locals.nbytes

\* C28: when the stream closes or the timeout expires after the n bytes of
\* recv_channel(n, word_alignment=True), n not a multiple of 4, and before
\* all of the padding, the call returns the n bytes without an error, and
\* fewer bytes than n and its padding have been consumed.
C28_PaddingCutShort ==
    PaddingCutShort =>
        /\ locals.word_alignment /\ (locals.nbytes % 4) # 0
        /\ result.exc = "none"
        /\ result.val = SubSeq(stream, 1, locals.nbytes)
        /\ pos >= locals.nbytes
        /\ pos < locals.nbytes + Padding

\* 5 bytes and one of their 3 padding bytes arrived before the peer closed
C28_Witness ==
    /\ PaddingCutShort
    /\ locals.left = "closed"
    /\ locals.nbytes = 5
    /\ pos = 6

\* the length word of the address buffer of a connect request reply
AnnouncedLength ==
    bytes_to_bint(SubSeq(stream, AfterOpcode + 13, AfterOpcode + 16))

\* the first byte after the buffer padded to the next word
AfterPaddedBuffer ==
    AfterOpcode + 16 + AnnouncedLength + ((4 - (AnnouncedLength % 4)) % 4)

ConnectRequestRead ==
    /\ result.op = "_op_connect_request"
    /\ FirstOpcode(stream) = op_response
    /\ Len(stream) >= AfterOpcode + 16
    /\ AnnouncedLength >= 8
    /\ Len(stream) >= AfterPaddedBuffer

\* C29 as the specification states it: for every announced length of 8 or
\* more the reader of _op_connect_request consumes the address buffer padded
\* to the next 4-byte boundary, so that it ends as the status vector parsed
\* from the first byte after the padded buffer makes it end.
C29_AsStated ==
    ConnectRequestRead =>
        LET sv == _parse_status_vector(stream, AfterPaddedBuffer)
        IN  /\ pos = sv.pos
            /\ result.exc =
                   IF sv.exc # "none" THEN sv.exc
                   ELSE IF sv.sql_code # 0 \/ Truthy(sv.message)
                   THEN "OperationalError" ELSE "none"

\* the same for announced lengths that leave a remainder of 0 or 2 in the
\* division by 4, where ln + ln % 4 is the next 4-byte boundary
C29_EvenLengths ==
    (ConnectRequestRead /\ AnnouncedLength % 2 = 0) =>
        pos = _parse_status_vector(stream, AfterPaddedBuffer).pos

=============================================================================
